---- MODULE Spec2Model ----
(***************************************************************************)
(* A model of app.py of akamai-cache-tester: the probe of one URL          *)
(* (check_akamai_cache), its cache-status decision ladder, and the batched *)
(* run of the /test handler (test_sitemap).                                *)
(*                                                                         *)
(* Python strings whose characters the code inspects (header values) are   *)
(* sequences of one-character strings.  A Python value that may be None is *)
(* a sequence of length at most one: <<>> is None, <<v>> is the value v.   *)
(***************************************************************************)
EXTENDS Integers, Sequences, FiniteSets, TLC

(***************************************************************************)
(* Bounds of the model.                                                    *)
(***************************************************************************)
\* the X-Timer header values tried have at most this many comma-separated tokens
MaxTimerTokens == 2

None == <<>>
Some(v) == <<v>>

(***************************************************************************)
(* String literals of app.py, as character sequences.                      *)
(***************************************************************************)
NOT_FOUND == <<"N","O","T","_","F","O","U","N","D">>
ERROR == <<"E","R","R","O","R">>
TCP_HIT == <<"T","C","P","_","H","I","T">>
TCP_MEM_HIT == <<"T","C","P","_","M","E","M","_","H","I","T">>
TCP_MISS == <<"T","C","P","_","M","I","S","S">>
TCP_REFRESH_HIT == <<"T","C","P","_","R","E","F","R","E","S","H","_","H","I","T">>
TCP_REFRESH_MISS == <<"T","C","P","_","R","E","F","R","E","S","H","_","M","I","S","S">>
CacheableUNKNOWN == <<"U","N","K","N","O","W","N">>
CacheableNO == <<"N","O">>
AgeZero == <<"0">>
VE == <<"V","E">>
Comma == <<",">>

(***************************************************************************)
(* Python str operations used by the classifier.                           *)
(***************************************************************************)
\* needle in hay
Contains(hay, needle) ==
    \E k \in 0..(Len(hay) - Len(needle)) : SubSeq(hay, k + 1, k + Len(needle)) = needle

\* hay.find(needle) + 1, for a needle that occurs in hay
FirstIndex(hay, needle) ==
    CHOOSE k \in 1..(Len(hay) - Len(needle) + 1) :
        /\ SubSeq(hay, k, k + Len(needle) - 1) = needle
        /\ \A j \in 1..(k - 1) : SubSeq(hay, j, j + Len(needle) - 1) # needle

\* s.split(sep): the list of the pieces of s between the occurrences of sep
RECURSIVE Split(_, _)
Split(s, sep) ==
    IF ~Contains(s, sep)
    THEN <<s>>
    ELSE LET k == FirstIndex(s, sep)
         IN  <<SubSeq(s, 1, k - 1)>> \o Split(SubSeq(s, k + Len(sep), Len(s)), sep)

Digits == {"0","1","2","3","4","5","6","7","8","9"}

DigitVal(c) ==
    CASE c = "0" -> 0 [] c = "1" -> 1 [] c = "2" -> 2 [] c = "3" -> 3 [] c = "4" -> 4
      [] c = "5" -> 5 [] c = "6" -> 6 [] c = "7" -> 7 [] c = "8" -> 8 [] c = "9" -> 9

\* s.strip() for the blank character
RECURSIVE StripLeft(_)
StripLeft(s) == IF s # <<>> /\ Head(s) = " " THEN StripLeft(Tail(s)) ELSE s

RECURSIVE StripRight(_)
StripRight(s) ==
    IF s # <<>> /\ s[Len(s)] = " " THEN StripRight(SubSeq(s, 1, Len(s) - 1)) ELSE s

Strip(s) == StripRight(StripLeft(s))

\* the digits of a decimal literal: at least one digit, single underscores
\* only between two digits
IsDecimal(s) ==
    /\ s # <<>>
    /\ \A k \in 1..Len(s) : s[k] \in Digits \cup {"_"}
    /\ s[1] \in Digits
    /\ s[Len(s)] \in Digits
    /\ \A k \in 1..(Len(s) - 1) : ~(s[k] = "_" /\ s[k + 1] = "_")

RECURSIVE DecimalValue(_)
DecimalValue(s) ==
    IF s = <<>> THEN 0
    ELSE LET init == SubSeq(s, 1, Len(s) - 1)
             last == s[Len(s)]
         IN  IF last = "_" THEN DecimalValue(init)
             ELSE 10 * DecimalValue(init) + DigitVal(last)

\* int(s): Some(value), or None where Python raises ValueError
int(s) ==
    LET t == Strip(s)
        signed == t # <<>> /\ t[1] \in {"+", "-"}
        body == IF signed THEN Tail(t) ELSE t
    IN  IF ~IsDecimal(body) THEN None
        ELSE IF signed /\ t[1] = "-" THEN Some(0 - DecimalValue(body))
        ELSE Some(DecimalValue(body))

(***************************************************************************)
(* The outcome of requests.get(url, ...): an exception, or a response with *)
(* a status code, headers (None for an absent header) and the content      *)
(* signals detect_aem looks for.                                           *)
(***************************************************************************)
HeaderNames ==
    {"X-Cache", "X-Cache-Remote", "X-Check-Cacheable", "X-Cache-Key", "X-True-Cache-Key",
     "X-Served-By", "X-Timer", "Age", "Cache-Control"}

\* response.headers.get(name, default)
HeaderGet(headers, name, default) ==
    IF headers[name] = None THEN default ELSE headers[name][1]

AemSignals ==
    {"cq_classes", "aem_classes", "data_attrs", "data_path", "aem_comments",
     "clientlib_js", "old_clientlib_js", "clientlib_css", "old_clientlib_css",
     "granite", "libs_paths", "apps_paths", "url_content", "url_html", "url_selector",
     "meta_generator", "wcmmode"}

EvidenceCategories ==
    {"html_classes", "data_attributes", "html_comments", "headers", "javascript_paths",
     "css_paths", "url_patterns", "meta_tags"}

\* <<signal, evidence category, confidence increment in hundredths>>, in the
\* order detect_aem tests them; "headers" stands for the loop over the headers
AemChecks ==
    << <<"cq_classes", "html_classes", 25>>,
       <<"aem_classes", "html_classes", 25>>,
       <<"data_attrs", "data_attributes", 30>>,
       <<"data_path", "data_attributes", 15>>,
       <<"aem_comments", "html_comments", 20>>,
       <<"headers", "headers", 0>>,
       <<"clientlib_js", "javascript_paths", 35>>,
       <<"old_clientlib_js", "javascript_paths", 35>>,
       <<"clientlib_css", "css_paths", 30>>,
       <<"old_clientlib_css", "css_paths", 30>>,
       <<"granite", "javascript_paths", 25>>,
       <<"libs_paths", "javascript_paths", 20>>,
       <<"apps_paths", "javascript_paths", 20>>,
       <<"url_content", "url_patterns", 15>>,
       <<"url_html", "url_patterns", 5>>,
       <<"url_selector", "url_patterns", 10>>,
       <<"meta_generator", "meta_tags", 30>>,
       <<"wcmmode", "html_classes", 15>> >>

Min(a, b) == IF a < b THEN a ELSE b

\* n copies of the evidence entry e
RECURSIVE Repeat(_, _)
Repeat(e, n) == IF n = 0 THEN <<>> ELSE <<e>> \o Repeat(e, n - 1)

\* how many evidence entries a matched check files when its pattern matches
\* `matches` distinct strings: list(set(findall)), cut to 3 or 2 examples for
\* the paths, one fixed entry for the searches
EvidenceEntries(signal, matches) ==
    IF signal \in {"cq_classes", "aem_classes", "data_attrs"} THEN matches
    ELSE IF signal \in {"clientlib_js", "old_clientlib_js", "clientlib_css",
                        "old_clientlib_css"} THEN Min(matches, 3)
    ELSE IF signal \in {"libs_paths", "apps_paths"} THEN Min(matches, 2)
    ELSE 1

\* detect_aem adding the increment of a check once for every entry it files
RECURSIVE PerMatch_AemScan(_, _)
PerMatch_AemScan(page, k) ==
    IF k = 0
    THEN [confidence |-> 0, evidence |-> [c \in EvidenceCategories |-> <<>>]]
    ELSE LET prev == PerMatch_AemScan(page, k - 1)
             chk == AemChecks[k]
             n == EvidenceEntries(chk[1], page.matches)
         IN  IF chk[1] = "headers"
             THEN [confidence |-> prev.confidence + 30 * page.x_aem_headers
                                                  + 25 * page.day_cq_headers,
                   evidence |-> [prev.evidence EXCEPT !["headers"] =
                                    @ \o Repeat("x-aem/x-cq header", page.x_aem_headers)
                                      \o Repeat("day cq header value", page.day_cq_headers)]]
             ELSE IF chk[1] \in page.sigs
             THEN [confidence |-> prev.confidence + n * chk[3],
                   evidence |-> [prev.evidence EXCEPT ![chk[2]] = @ \o Repeat(chk[1], n)]]
             ELSE prev

\* detect_aem adding the 0.05 of the .html extension without an evidence entry
RECURSIVE Silent_AemScan(_, _)
Silent_AemScan(page, k) ==
    IF k = 0
    THEN [confidence |-> 0, evidence |-> [c \in EvidenceCategories |-> <<>>]]
    ELSE LET prev == Silent_AemScan(page, k - 1)
             chk == AemChecks[k]
         IN  IF chk[1] = "headers"
             THEN [confidence |-> prev.confidence + 30 * page.x_aem_headers
                                                  + 25 * page.day_cq_headers,
                   evidence |-> [prev.evidence EXCEPT !["headers"] =
                                    @ \o Repeat("x-aem/x-cq header", page.x_aem_headers)
                                      \o Repeat("day cq header value", page.day_cq_headers)]]
             ELSE IF chk[1] = "url_html" /\ chk[1] \in page.sigs
             THEN [confidence |-> prev.confidence + chk[3], evidence |-> prev.evidence]
             ELSE IF chk[1] \in page.sigs
             THEN [confidence |-> prev.confidence + chk[3],
                   evidence |-> [prev.evidence EXCEPT ![chk[2]] =
                                    @ \o Repeat(chk[1], EvidenceEntries(chk[1], page.matches))]]
             ELSE prev

\* The state of detect_aem after its first k checks on the content signals
\* page = [sigs, matches, x_aem_headers, day_cq_headers]: the running
\* confidence (in hundredths) and the evidence lists.  sigs are the checks
\* whose pattern matches, matches the number of distinct strings each of
\* them matches.
RECURSIVE AemScan(_, _)
AemScan(page, k) ==
    IF k = 0
    THEN [confidence |-> 0, evidence |-> [c \in EvidenceCategories |-> <<>>]]
    ELSE LET prev == AemScan(page, k - 1)
             chk == AemChecks[k]
         IN  IF chk[1] = "headers"
             THEN [confidence |-> prev.confidence + 30 * page.x_aem_headers
                                                  + 25 * page.day_cq_headers,
                   evidence |-> [prev.evidence EXCEPT !["headers"] =
                                    @ \o Repeat("x-aem/x-cq header", page.x_aem_headers)
                                      \o Repeat("day cq header value", page.day_cq_headers)]]
             ELSE IF chk[1] \in page.sigs
             THEN [confidence |-> prev.confidence + chk[3],
                   evidence |-> [prev.evidence EXCEPT ![chk[2]] =
                                    @ \o Repeat(chk[1], EvidenceEntries(chk[1], page.matches))]]
             ELSE prev

\* detect_aem without line 322
Unclamped_detect_aem(page) ==
    LET scan == AemScan(page, Len(AemChecks))
        confidence == scan.confidence
        is_aem == confidence >= 30
        kept == {c \in EvidenceCategories : scan.evidence[c] # <<>>}
        evidence == [c \in kept |-> scan.evidence[c]]
    IN  <<is_aem, confidence, evidence>>

\* detect_aem with the threshold of line 325 exclusive
Strict_detect_aem(page) ==
    LET scan == AemScan(page, Len(AemChecks))
        confidence == Min(scan.confidence, 100)
        is_aem == confidence > 30
        kept == {c \in EvidenceCategories : scan.evidence[c] # <<>>}
        evidence == [c \in kept |-> scan.evidence[c]]
    IN  <<is_aem, confidence, evidence>>

\* detect_aem without the clean-up of line 329
Unpruned_detect_aem(page) ==
    LET scan == AemScan(page, Len(AemChecks))
        confidence == Min(scan.confidence, 100)
        is_aem == confidence >= 30
    IN  <<is_aem, confidence, scan.evidence>>

\* detect_aem(response): <<is_aem, confidence, evidence>>
detect_aem(page) ==
    LET scan == AemScan(page, Len(AemChecks))
        confidence == Min(scan.confidence, 100)
        is_aem == confidence >= 30
        kept == {c \in EvidenceCategories : scan.evidence[c] # <<>>}
        evidence == [c \in kept |-> scan.evidence[c]]
    IN  <<is_aem, confidence, evidence>>

(***************************************************************************)
(* check_akamai_cache                                                      *)
(***************************************************************************)
\* the value of x_timer.split('VE')[1].split(',')[0]
VePart(x_timer) == Split(Split(x_timer, VE)[2], Comma)[1]

\* the try block of lines 126-139 without its except clause: a ValueError
\* leaves the classification
Unguarded_InferFromTiming(x_timer) ==
    LET t == int(VePart(x_timer))
    IN  IF t = None THEN <<"ERROR", None>>
        ELSE IF t[1] < 100 THEN <<"HIT (inferred from timing)", t>>
        ELSE IF t[1] > 500 THEN <<"MISS (inferred from timing)", t>>
        ELSE <<"UNKNOWN (timing inconclusive)", t>>

\* lines 126-139 with inclusive thresholds
Inclusive_InferFromTiming(x_timer) ==
    LET t == int(VePart(x_timer))
    IN  IF t = None THEN <<"UNKNOWN", None>>
        ELSE IF t[1] <= 100 THEN <<"HIT (inferred from timing)", t>>
        ELSE IF t[1] >= 500 THEN <<"MISS (inferred from timing)", t>>
        ELSE <<"UNKNOWN (timing inconclusive)", t>>

\* lines 126-139, the body of the timing rule: <<cache_hit, response_time_ms>>
InferFromTiming(x_timer) ==
    LET t == int(VePart(x_timer))
    IN  IF t = None THEN <<"UNKNOWN", None>>
        ELSE IF t[1] < 100 THEN <<"HIT (inferred from timing)", t>>
        ELSE IF t[1] > 500 THEN <<"MISS (inferred from timing)", t>>
        ELSE <<"UNKNOWN (timing inconclusive)", t>>

\* lines 103-139 with the X-Check-Cacheable test moved to the top of the ladder
Swapped_Classify(x_cache, x_check_cacheable, age, x_timer) ==
    IF x_check_cacheable = CacheableNO THEN <<"NOT_CACHEABLE", None>>
    ELSE IF Contains(x_cache, TCP_HIT) \/ Contains(x_cache, TCP_MEM_HIT) THEN <<"HIT", None>>
    ELSE IF Contains(x_cache, TCP_MISS) THEN <<"MISS", None>>
    ELSE IF Contains(x_cache, TCP_REFRESH_HIT) THEN <<"REFRESH_HIT", None>>
    ELSE IF Contains(x_cache, TCP_REFRESH_MISS) THEN <<"REFRESH_MISS", None>>
    ELSE IF age # <<>> /\ age # AgeZero THEN <<"HIT", None>>
    ELSE IF x_timer # NOT_FOUND /\ Contains(x_timer, VE) THEN InferFromTiming(x_timer)
    ELSE <<"UNKNOWN", None>>

\* lines 103-139 with the VE segment parsed ahead of the ladder, so that a
\* verdict of the rules 1-6 carries a response time
Timed_Classify(x_cache, x_check_cacheable, age, x_timer) ==
    LET t == IF x_timer # NOT_FOUND /\ Contains(x_timer, VE)
             THEN InferFromTiming(x_timer)[2] ELSE None
    IN  IF Contains(x_cache, TCP_HIT) \/ Contains(x_cache, TCP_MEM_HIT) THEN <<"HIT", t>>
        ELSE IF Contains(x_cache, TCP_MISS) THEN <<"MISS", t>>
        ELSE IF Contains(x_cache, TCP_REFRESH_HIT) THEN <<"REFRESH_HIT", t>>
        ELSE IF Contains(x_cache, TCP_REFRESH_MISS) THEN <<"REFRESH_MISS", t>>
        ELSE IF x_check_cacheable = CacheableNO THEN <<"NOT_CACHEABLE", t>>
        ELSE IF age # <<>> /\ age # AgeZero THEN <<"HIT", t>>
        ELSE IF x_timer # NOT_FOUND /\ Contains(x_timer, VE) THEN InferFromTiming(x_timer)
        ELSE <<"UNKNOWN", None>>

\* lines 103-139: <<cache_hit, response_time_ms>>
Classify(x_cache, x_check_cacheable, age, x_timer) ==
    IF Contains(x_cache, TCP_HIT) \/ Contains(x_cache, TCP_MEM_HIT) THEN <<"HIT", None>>
    ELSE IF Contains(x_cache, TCP_MISS) THEN <<"MISS", None>>
    ELSE IF Contains(x_cache, TCP_REFRESH_HIT) THEN <<"REFRESH_HIT", None>>
    ELSE IF Contains(x_cache, TCP_REFRESH_MISS) THEN <<"REFRESH_MISS", None>>
    ELSE IF x_check_cacheable = CacheableNO THEN <<"NOT_CACHEABLE", None>>
    ELSE IF age # <<>> /\ age # AgeZero THEN <<"HIT", None>>
    ELSE IF x_timer # NOT_FOUND /\ Contains(x_timer, VE) THEN InferFromTiming(x_timer)
    ELSE <<"UNKNOWN", None>>

\* lines 168-187 echoing the default age instead of the sentinel
Leaky_ErrorRecord(url, e) ==
    [url |-> url, status_code |-> "ERROR", cache_hit |-> "ERROR",
     x_cache |-> ERROR, x_cache_remote |-> ERROR, x_check_cacheable |-> ERROR,
     x_cache_key |-> ERROR, x_true_cache_key |-> ERROR, x_served_by |-> ERROR,
     x_timer |-> ERROR, age |-> AgeZero, cache_control |-> ERROR,
     response_time_ms |-> None, is_aem |-> None, aem_confidence |-> None,
     aem_evidence |-> None, error |-> Some(e)]

\* lines 168-187: the record returned when the try block raised e
ErrorRecord(url, e) ==
    [url |-> url, status_code |-> "ERROR", cache_hit |-> "ERROR",
     x_cache |-> ERROR, x_cache_remote |-> ERROR, x_check_cacheable |-> ERROR,
     x_cache_key |-> ERROR, x_true_cache_key |-> ERROR, x_served_by |-> ERROR,
     x_timer |-> ERROR, age |-> ERROR, cache_control |-> ERROR,
     response_time_ms |-> None, is_aem |-> None, aem_confidence |-> None,
     aem_evidence |-> None, error |-> Some(e)]

\* lines 88-166 with the confidence of detect_aem kept whatever the flag
Partial_SuccessRecord(url, test_for_aem, response) ==
    LET h == response.headers
        x_cache == HeaderGet(h, "X-Cache", NOT_FOUND)
        x_check_cacheable == HeaderGet(h, "X-Check-Cacheable", CacheableUNKNOWN)
        x_timer == HeaderGet(h, "X-Timer", NOT_FOUND)
        age == HeaderGet(h, "Age", AgeZero)
        verdict == Classify(x_cache, x_check_cacheable, age, x_timer)
        aem == detect_aem(response.page)
    IN  [url |-> url, status_code |-> response.status_code, cache_hit |-> verdict[1],
         x_cache |-> x_cache,
         x_cache_remote |-> HeaderGet(h, "X-Cache-Remote", NOT_FOUND),
         x_check_cacheable |-> x_check_cacheable,
         x_cache_key |-> HeaderGet(h, "X-Cache-Key", NOT_FOUND),
         x_true_cache_key |-> HeaderGet(h, "X-True-Cache-Key", NOT_FOUND),
         x_served_by |-> HeaderGet(h, "X-Served-By", NOT_FOUND),
         x_timer |-> x_timer, age |-> age,
         cache_control |-> HeaderGet(h, "Cache-Control", NOT_FOUND),
         response_time_ms |-> verdict[2],
         is_aem |-> IF test_for_aem THEN Some(aem[1]) ELSE None,
         aem_confidence |-> Some(aem[2]),
         aem_evidence |-> IF test_for_aem THEN Some(aem[3]) ELSE None,
         error |-> None]

\* lines 88-166: the record returned for a response
SuccessRecord(url, test_for_aem, response) ==
    LET h == response.headers
        x_cache == HeaderGet(h, "X-Cache", NOT_FOUND)
        x_check_cacheable == HeaderGet(h, "X-Check-Cacheable", CacheableUNKNOWN)
        x_timer == HeaderGet(h, "X-Timer", NOT_FOUND)
        age == HeaderGet(h, "Age", AgeZero)
        verdict == Classify(x_cache, x_check_cacheable, age, x_timer)
        aem == detect_aem(response.page)
    IN  [url |-> url, status_code |-> response.status_code, cache_hit |-> verdict[1],
         x_cache |-> x_cache,
         x_cache_remote |-> HeaderGet(h, "X-Cache-Remote", NOT_FOUND),
         x_check_cacheable |-> x_check_cacheable,
         x_cache_key |-> HeaderGet(h, "X-Cache-Key", NOT_FOUND),
         x_true_cache_key |-> HeaderGet(h, "X-True-Cache-Key", NOT_FOUND),
         x_served_by |-> HeaderGet(h, "X-Served-By", NOT_FOUND),
         x_timer |-> x_timer, age |-> age,
         cache_control |-> HeaderGet(h, "Cache-Control", NOT_FOUND),
         response_time_ms |-> verdict[2],
         is_aem |-> IF test_for_aem THEN Some(aem[1]) ELSE None,
         aem_confidence |-> IF test_for_aem THEN Some(aem[2]) ELSE None,
         aem_evidence |-> IF test_for_aem THEN Some(aem[3]) ELSE None,
         error |-> None]

\* check_akamai_cache(url, test_for_aem), given what requests.get does
check_akamai_cache(url, test_for_aem, fetch) ==
    IF fetch.exception # None
    THEN ErrorRecord(url, fetch.exception[1])
    ELSE SuccessRecord(url, test_for_aem, fetch)

(***************************************************************************)
(* State.  p_*: one call of check_akamai_cache.  The others: one request   *)
(* to the /test handler, test_sitemap.                                     *)
(***************************************************************************)
VARIABLES
    p_pc,             \* "call" before check_akamai_cache runs, "returned" after
    p_url,            \* its argument url
    p_test_for_aem,   \* its argument test_for_aem
    p_fetch,          \* what requests.get does for this call
    p_record,         \* the returned dict (None before the return)
    pc,               \* the handler's position
    sitemap_url,      \* data.get('sitemap_url', ''), before strip()
    data,             \* the other fields of the request's JSON (None for an omitted one)
    resolved,         \* what parse_sitemap did (None before the call)
    check_aem,        \* data.get('check_aem', True)
    URL_BATCH_SIZE,   \* the module global
    urls,             \* the list probed
    i,                \* the loop variable of the batch loop (0-based, as in Python)
    batch,            \* urls[i:i + URL_BATCH_SIZE]
    futures,          \* the futures created so far, by the position of their URL in urls
    future_to_url,    \* the positions whose futures the current batch has submitted
    yielded,          \* the positions as_completed has yielded in the current batch
    results,          \* the run-level result list
    sleeps,           \* the values of i at which time.sleep(BATCH_DELAY) was called
    groups,           \* the batches dispatched so far
    reply             \* the handler's return value (None while it runs)

probevars == <<p_pc, p_url, p_test_for_aem, p_fetch, p_record>>
runvars ==
    <<pc, sitemap_url, data, resolved, check_aem, URL_BATCH_SIZE, urls, i, batch, futures,
      future_to_url, yielded, results, sleeps, groups, reply>>
vars == <<probevars, runvars>>

(***************************************************************************)
(* The inputs tried.                                                       *)
(***************************************************************************)
\* the tokens X-Timer values are made of
TimerTokens ==
    { <<"S","1">>, <<"V","E","9","9">>, <<"V","E","1","0","0">>, <<"V","E","5","0","0">>,
      <<"V","E","5","0","1">>, <<"V","E","x">>, <<"A","V","E">>, <<"V","E","-","5">> }

\* ','.join(tokens)
RECURSIVE Join(_)
Join(tokens) ==
    IF Len(tokens) = 1 THEN tokens[1]
    ELSE tokens[1] \o Comma \o Join(Tail(tokens))

TimerLists == UNION {[1..n -> TimerTokens] : n \in 1..MaxTimerTokens}
TimerValues == {None, Some(<<>>)} \cup {Some(Join(l)) : l \in TimerLists}

From == <<" ","f","r","o","m"," ","a">>
XCacheValues ==
    {None, Some(TCP_HIT \o From), Some(TCP_MEM_HIT \o From), Some(TCP_MISS \o From),
     Some(TCP_REFRESH_HIT \o From), Some(TCP_REFRESH_MISS \o From),
     Some(TCP_MISS \o Comma \o TCP_HIT), Some(TCP_REFRESH_MISS \o Comma \o TCP_REFRESH_HIT),
     Some(<<"T","C","P","_","D","E","N","I","E","D">>)}

CacheableValues == {None, Some(CacheableNO), Some(<<"Y","E","S">>)}

AgeValues == {None, Some(AgeZero), Some(<<>>), Some(<<"5">>)}

NoPage == [sigs |-> {}, matches |-> 1, x_aem_headers |-> 0, day_cq_headers |-> 0]
AemPage ==
    [sigs |-> {"data_path", "url_content"}, matches |-> 1, x_aem_headers |-> 1,
     day_cq_headers |-> 0]

\* the status code, the headers the verdict does not read, and the page
Envelopes ==
    { [status_code |-> "200", other |-> Some(<<"k">>), page |-> AemPage],
      [status_code |-> "404", other |-> None, page |-> NoPage] }

Response(env, x_cache, cacheable, age, x_timer) ==
    [exception |-> None, status_code |-> env.status_code, page |-> env.page,
     headers |-> [n \in HeaderNames |->
                    CASE n = "X-Cache" -> x_cache
                      [] n = "X-Check-Cacheable" -> cacheable
                      [] n = "Age" -> age
                      [] n = "X-Timer" -> x_timer
                      [] OTHER -> env.other]]

\* a response with the status 200 and no header but those named
Plain(page) == [status_code |-> "200", other |-> None, page |-> page]

Raised(message) ==
    [exception |-> Some(message), status_code |-> "", page |-> NoPage,
     headers |-> [n \in HeaderNames |-> None]]

Exceptions == {Raised("Connection timeout"), Raised("Name or service not known")}

Responses ==
    {Response(env, xc, ca, ag, tm) :
        env \in Envelopes, xc \in XCacheValues, ca \in CacheableValues,
        ag \in AgeValues, tm \in TimerValues}

Fetches == Responses \cup Exceptions

(***************************************************************************)
(* The specification of one call of check_akamai_cache.                    *)
(***************************************************************************)
\* a request that carries sitemap_url and nothing else
NoConfig == [check_aem |-> None, batch_size |-> None, batch_delay |-> None, max_urls |-> None]

\* the request d with the value v under the key check_aem
WithFlag(d, v) == [d EXCEPT !.check_aem = v]

\* line 352: data.get('check_aem', True)
ReadCheckAem(d) == IF d.check_aem = None THEN TRUE ELSE d.check_aem[1]

RunIdle ==
    /\ pc = "Idle"
    /\ sitemap_url = <<>>
    /\ data = NoConfig
    /\ resolved = None
    /\ check_aem = ReadCheckAem(data)
    /\ URL_BATCH_SIZE = 3
    /\ urls = <<>>
    /\ i = 0
    /\ batch = <<>>
    /\ futures = <<>>
    /\ future_to_url = <<>>
    /\ yielded = {}
    /\ results = <<>>
    /\ sleeps = <<>>
    /\ groups = <<>>
    /\ reply = None

InitProbe ==
    /\ p_pc = "call"
    /\ p_url \in {"https://example.com/page1"}
    /\ p_test_for_aem \in BOOLEAN
    /\ p_fetch \in Fetches
    /\ p_record = None
    /\ RunIdle

Probe ==
    /\ p_pc = "call"
    /\ p_record' = Some(check_akamai_cache(p_url, p_test_for_aem, p_fetch))
    /\ p_pc' = "returned"
    /\ UNCHANGED <<p_url, p_test_for_aem, p_fetch, runvars>>

NextProbe == Probe

SpecProbe == InitProbe /\ [][NextProbe]_vars

(***************************************************************************)
(* One call of check_akamai_cache with the platform check requested, on    *)
(* pages drawn by the checks of detect_aem that match.                     *)
(***************************************************************************)
\* the most content checks that match on a page, the page matching all set aside
MaxSignals == 2
\* the most response headers of either kind
MaxHeaders == 2
\* the most distinct strings one pattern matches
MaxMatches == 2

AemPages ==
    [sigs : {S \in SUBSET AemSignals : Cardinality(S) <= MaxSignals} \cup {AemSignals},
     matches : 1..MaxMatches,
     x_aem_headers : 0..MaxHeaders,
     day_cq_headers : 0..MaxHeaders]

InitAem ==
    /\ p_pc = "call"
    /\ p_url = "https://example.com/page1"
    /\ p_test_for_aem = TRUE
    /\ \E page \in AemPages : p_fetch = Response(Plain(page), Some(TCP_HIT), None, None, None)
    /\ p_record = None
    /\ RunIdle

SpecAem == InitAem /\ [][NextProbe]_vars

(***************************************************************************)
(* The /test handler, test_sitemap.  A URL is identified by its position   *)
(* in the list the sitemap resolver returns.                               *)
(***************************************************************************)
\* the widest batch tried under Spec
MaxBatch == 3
\* the longest list the resolver returns under Spec
MaxUrls == 4

\* ThreadPoolExecutor(max_workers=10)
max_workers == 10
\* the demo limit of the handler
max_urls == 100

ProbeIdle ==
    /\ p_pc = "idle"
    /\ p_url = ""
    /\ p_test_for_aem = FALSE
    /\ p_fetch = Raised("")
    /\ p_record = None

SitemapUrls == {<<>>, <<" ">>, <<"h","t","t","p",":","/","/","s">>}

Init ==
    /\ ProbeIdle
    /\ pc = "Pending"
    /\ sitemap_url \in SitemapUrls
    /\ data \in {WithFlag(NoConfig, v) : v \in {None, Some(TRUE), Some(FALSE)}}
    /\ resolved = None
    /\ check_aem = ReadCheckAem(data)
    /\ URL_BATCH_SIZE \in 1..MaxBatch
    /\ urls = <<>>
    /\ i = 0
    /\ batch = <<>>
    /\ futures = <<>>
    /\ future_to_url = <<>>
    /\ yielded = {}
    /\ results = <<>>
    /\ sleeps = <<>>
    /\ groups = <<>>
    /\ reply = None

\* a Python slice s[lo:hi] for 0 <= lo <= hi
Slice(s, lo, hi) == SubSeq(s, lo + 1, Min(hi, Len(s)))

\* the verdicts and the sentinel a record's cache_hit can hold, as characters
Chars(v) ==
    CASE v = "HIT" -> <<"H","I","T">>
      [] v = "MISS" -> <<"M","I","S","S">>
      [] v = "REFRESH_HIT" -> <<"R","E","F","R","E","S","H","_","H","I","T">>
      [] v = "REFRESH_MISS" -> <<"R","E","F","R","E","S","H","_","M","I","S","S">>
      [] v = "NOT_CACHEABLE" -> <<"N","O","T","_","C","A","C","H","E","A","B","L","E">>
      [] v = "UNKNOWN" -> <<"U","N","K","N","O","W","N">>
      [] v = "UNKNOWN (timing inconclusive)" ->
            <<"U","N","K","N","O","W","N"," ","(","t","i","m","i","n","g"," ",
              "i","n","c","o","n","c","l","u","s","i","v","e",")">>
      [] v = "HIT (inferred from timing)" ->
            <<"H","I","T"," ","(","i","n","f","e","r","r","e","d"," ","f","r","o","m"," ",
              "t","i","m","i","n","g",")">>
      [] v = "MISS (inferred from timing)" ->
            <<"M","I","S","S"," ","(","i","n","f","e","r","r","e","d"," ","f","r","o","m"," ",
              "t","i","m","i","n","g",")">>
      [] v = "ERROR" -> ERROR

\* a count that stops at the first record that does not count
Leading_Count(flags) ==
    Cardinality({k \in DOMAIN flags : \A j \in 1..k : flags[j]})

\* sum(1 for r in results if ...), given for each record whether it counts
Count(flags) == Cardinality({k \in DOMAIN flags : flags[k]})

\* hits / cacheable_total * 100 cut to two decimals instead of rounded
Truncating_RatioHundredths(hits, cacheable_total) == (hits * 10000) \div cacheable_total

\* round(hits / cacheable_total * 100, 2), in hundredths (ties to even); the
\* float arithmetic of Python gives this value for every cacheable_total up
\* to max_urls
RatioHundredths(hits, cacheable_total) ==
    LET q == (hits * 10000) \div cacheable_total
        r == (hits * 10000) % cacheable_total
    IN  IF 2 * r > cacheable_total \/ (2 * r = cacheable_total /\ q % 2 = 1)
        THEN q + 1 ELSE q

\* lines 389-426 counting the hits and the misses by equality
Exact_Summary(rs) ==
    LET Is(r, v) == r.cache_hit = v
        total == Len(rs)
        hits == Count([k \in 1..Len(rs) |-> Is(rs[k], "HIT")])
        not_cacheable == Count([k \in 1..Len(rs) |-> Is(rs[k], "NOT_CACHEABLE")])
        errors == Count([k \in 1..Len(rs) |-> Is(rs[k], "ERROR")])
        cacheable_total == total - not_cacheable - errors
    IN  [total_urls |-> total,
         cache_hits |-> hits,
         cache_misses |-> Count([k \in 1..Len(rs) |-> Is(rs[k], "MISS")]),
         confirmed_hits |-> Count([k \in 1..Len(rs) |-> rs[k].cache_hit \in {"HIT", "REFRESH_HIT"}]),
         inferred_hits |-> Count([k \in 1..Len(rs) |-> Is(rs[k], "HIT (inferred from timing)")]),
         confirmed_misses |-> Count([k \in 1..Len(rs) |-> rs[k].cache_hit \in {"MISS", "REFRESH_MISS"}]),
         inferred_misses |-> Count([k \in 1..Len(rs) |-> Is(rs[k], "MISS (inferred from timing)")]),
         not_cacheable |-> not_cacheable,
         total_aem_detected |-> Count([k \in 1..Len(rs) |-> rs[k].is_aem = Some(TRUE)]),
         errors |-> errors,
         unknown |-> Count([k \in 1..Len(rs) |-> Is(rs[k], "UNKNOWN")]),
         cache_hit_ratio |-> IF cacheable_total > 0
                             THEN RatioHundredths(hits, cacheable_total) ELSE 0]

\* lines 389-426 with unknown counting every record that is neither a hit nor a miss
Residual_Summary(rs) ==
    LET HasHit(r) == Contains(Chars(r.cache_hit), <<"H","I","T">>)
        HasMiss(r) == Contains(Chars(r.cache_hit), <<"M","I","S","S">>)
        InfHit(r) == r.cache_hit = "HIT (inferred from timing)"
        InfMiss(r) == r.cache_hit = "MISS (inferred from timing)"
        ConfHit(r) == r.cache_hit \in {"HIT", "REFRESH_HIT"}
        ConfMiss(r) == r.cache_hit \in {"MISS", "REFRESH_MISS"}
        NotCacheable(r) == r.cache_hit = "NOT_CACHEABLE"
        IsError(r) == r.cache_hit = "ERROR"
        HasUnknown(r) == ~HasHit(r) /\ ~HasMiss(r)
        IsAem(r) == r.is_aem = Some(TRUE)
        total == Len(rs)
        hits == Count([k \in 1..Len(rs) |-> HasHit(rs[k])])
        not_cacheable == Count([k \in 1..Len(rs) |-> NotCacheable(rs[k])])
        errors == Count([k \in 1..Len(rs) |-> IsError(rs[k])])
        cacheable_total == total - not_cacheable - errors
    IN  [total_urls |-> total,
         cache_hits |-> hits,
         cache_misses |-> Count([k \in 1..Len(rs) |-> HasMiss(rs[k])]),
         confirmed_hits |-> Count([k \in 1..Len(rs) |-> ConfHit(rs[k])]),
         inferred_hits |-> Count([k \in 1..Len(rs) |-> InfHit(rs[k])]),
         confirmed_misses |-> Count([k \in 1..Len(rs) |-> ConfMiss(rs[k])]),
         inferred_misses |-> Count([k \in 1..Len(rs) |-> InfMiss(rs[k])]),
         not_cacheable |-> not_cacheable,
         total_aem_detected |-> Count([k \in 1..Len(rs) |-> IsAem(rs[k])]),
         errors |-> errors,
         unknown |-> Count([k \in 1..Len(rs) |-> HasUnknown(rs[k])]),
         cache_hit_ratio |-> IF cacheable_total > 0
                             THEN RatioHundredths(hits, cacheable_total) ELSE 0]

\* lines 389-426 with confirmed_hits counting the verdict HIT alone
Narrow_Summary(rs) ==
    LET HasHit(r) == Contains(Chars(r.cache_hit), <<"H","I","T">>)
        HasMiss(r) == Contains(Chars(r.cache_hit), <<"M","I","S","S">>)
        InfHit(r) == r.cache_hit = "HIT (inferred from timing)"
        InfMiss(r) == r.cache_hit = "MISS (inferred from timing)"
        ConfHit(r) == r.cache_hit = "HIT"
        ConfMiss(r) == r.cache_hit \in {"MISS", "REFRESH_MISS"}
        NotCacheable(r) == r.cache_hit = "NOT_CACHEABLE"
        IsError(r) == r.cache_hit = "ERROR"
        HasUnknown(r) == Contains(Chars(r.cache_hit), <<"U","N","K","N","O","W","N">>)
        IsAem(r) == r.is_aem = Some(TRUE)
        total == Len(rs)
        hits == Count([k \in 1..Len(rs) |-> HasHit(rs[k])])
        not_cacheable == Count([k \in 1..Len(rs) |-> NotCacheable(rs[k])])
        errors == Count([k \in 1..Len(rs) |-> IsError(rs[k])])
        cacheable_total == total - not_cacheable - errors
    IN  [total_urls |-> total,
         cache_hits |-> hits,
         cache_misses |-> Count([k \in 1..Len(rs) |-> HasMiss(rs[k])]),
         confirmed_hits |-> Count([k \in 1..Len(rs) |-> ConfHit(rs[k])]),
         inferred_hits |-> Count([k \in 1..Len(rs) |-> InfHit(rs[k])]),
         confirmed_misses |-> Count([k \in 1..Len(rs) |-> ConfMiss(rs[k])]),
         inferred_misses |-> Count([k \in 1..Len(rs) |-> InfMiss(rs[k])]),
         not_cacheable |-> not_cacheable,
         total_aem_detected |-> Count([k \in 1..Len(rs) |-> IsAem(rs[k])]),
         errors |-> errors,
         unknown |-> Count([k \in 1..Len(rs) |-> HasUnknown(rs[k])]),
         cache_hit_ratio |-> IF cacheable_total > 0
                             THEN RatioHundredths(hits, cacheable_total) ELSE 0]

\* lines 389-426
Summary(rs) ==
    LET HasHit(r) == Contains(Chars(r.cache_hit), <<"H","I","T">>)
        HasMiss(r) == Contains(Chars(r.cache_hit), <<"M","I","S","S">>)
        InfHit(r) == r.cache_hit = "HIT (inferred from timing)"
        InfMiss(r) == r.cache_hit = "MISS (inferred from timing)"
        ConfHit(r) == r.cache_hit \in {"HIT", "REFRESH_HIT"}
        ConfMiss(r) == r.cache_hit \in {"MISS", "REFRESH_MISS"}
        NotCacheable(r) == r.cache_hit = "NOT_CACHEABLE"
        IsError(r) == r.cache_hit = "ERROR"
        HasUnknown(r) == Contains(Chars(r.cache_hit), <<"U","N","K","N","O","W","N">>)
        IsAem(r) == r.is_aem = Some(TRUE)
        total == Len(rs)
        hits == Count([k \in 1..Len(rs) |-> HasHit(rs[k])])
        not_cacheable == Count([k \in 1..Len(rs) |-> NotCacheable(rs[k])])
        errors == Count([k \in 1..Len(rs) |-> IsError(rs[k])])
        cacheable_total == total - not_cacheable - errors
    IN  [total_urls |-> total,
         cache_hits |-> hits,
         cache_misses |-> Count([k \in 1..Len(rs) |-> HasMiss(rs[k])]),
         confirmed_hits |-> Count([k \in 1..Len(rs) |-> ConfHit(rs[k])]),
         inferred_hits |-> Count([k \in 1..Len(rs) |-> InfHit(rs[k])]),
         confirmed_misses |-> Count([k \in 1..Len(rs) |-> ConfMiss(rs[k])]),
         inferred_misses |-> Count([k \in 1..Len(rs) |-> InfMiss(rs[k])]),
         not_cacheable |-> not_cacheable,
         total_aem_detected |-> Count([k \in 1..Len(rs) |-> IsAem(rs[k])]),
         errors |-> errors,
         unknown |-> Count([k \in 1..Len(rs) |-> HasUnknown(rs[k])]),
         cache_hit_ratio |-> IF cacheable_total > 0
                             THEN RatioHundredths(hits, cacheable_total) ELSE 0]

ErrorReply(status, message) ==
    [status |-> status, success |-> None, error |-> Some(message),
     summary |-> None, results |-> None]

\* lines 352-357
RejectBlankUrl ==
    /\ pc = "Pending"
    /\ Strip(sitemap_url) = <<>>
    /\ reply' = Some(ErrorReply(400, "Please provide a sitemap URL"))
    /\ pc' = "Done"
    /\ UNCHANGED <<probevars, sitemap_url, data, check_aem, URL_BATCH_SIZE, resolved, urls, i, batch,
                   futures, future_to_url, yielded, results, sleeps, groups>>

\* lines 52-53 and 78-79: what parse_sitemap raises
ResolverErrors == {"Error parsing sitemap: unreachable", "Error parsing sitemap: 404 Not Found"}

\* lines 359-361 and 435-436: parse_sitemap raises, the reply carries str(e)
ResolverRaises ==
    /\ pc = "Pending"
    /\ Strip(sitemap_url) # <<>>
    /\ \E e \in ResolverErrors :
          /\ resolved' = Some([raised |-> Some(e), urls |-> <<>>])
          /\ reply' = Some(ErrorReply(500, e))
    /\ pc' = "Done"
    /\ UNCHANGED <<probevars, sitemap_url, data, check_aem, URL_BATCH_SIZE, urls, i, batch, futures,
                   future_to_url, yielded, results, sleeps, groups>>

\* lines 361-374 without the test of lines 363-364
Lenient_NoUrls ==
    /\ pc = "Pending"
    /\ Strip(sitemap_url) # <<>>
    /\ resolved' = Some([raised |-> None, urls |-> <<>>])
    /\ urls' = <<>>
    /\ results' = <<>>
    /\ i' = 0
    /\ pc' = "Loop"
    /\ UNCHANGED <<probevars, sitemap_url, data, check_aem, URL_BATCH_SIZE, batch, futures,
                   future_to_url, yielded, sleeps, groups, reply>>

\* lines 361-364: parse_sitemap returns no URL
NoUrls ==
    /\ pc = "Pending"
    /\ Strip(sitemap_url) # <<>>
    /\ resolved' = Some([raised |-> None, urls |-> <<>>])
    /\ reply' = Some(ErrorReply(400, "No URLs found in sitemap"))
    /\ pc' = "Done"
    /\ UNCHANGED <<probevars, sitemap_url, data, check_aem, URL_BATCH_SIZE, urls, i, batch, futures,
                   future_to_url, yielded, results, sleeps, groups>>

\* lines 361-374 without the cut of lines 367-369
Unlimited_StartRun(n) ==
    /\ pc = "Pending"
    /\ Strip(sitemap_url) # <<>>
    /\ n >= 1
    /\ resolved' = Some([raised |-> None, urls |-> [k \in 1..n |-> k]])
    /\ urls' = [k \in 1..n |-> k]
    /\ results' = <<>>
    /\ i' = 0
    /\ pc' = "Loop"
    /\ UNCHANGED <<probevars, sitemap_url, data, check_aem, URL_BATCH_SIZE, batch, futures,
                   future_to_url, yielded, sleeps, groups, reply>>

\* lines 361-374: parse_sitemap returns n URLs; the list is cut to max_urls
StartRun(n) ==
    /\ pc = "Pending"
    /\ Strip(sitemap_url) # <<>>
    /\ n >= 1
    /\ resolved' = Some([raised |-> None, urls |-> [k \in 1..n |-> k]])
    /\ urls' = Slice([k \in 1..n |-> k], 0, IF n > max_urls THEN max_urls ELSE n)
    /\ results' = <<>>
    /\ i' = 0
    /\ pc' = "Loop"
    /\ UNCHANGED <<probevars, sitemap_url, data, check_aem, URL_BATCH_SIZE, batch, futures,
                   future_to_url, yielded, sleeps, groups, reply>>

\* lines 374-375 with the slice one element too long
Overlapping_BeginBatch ==
    /\ pc = "Loop"
    /\ i < Len(urls)
    /\ batch' = Slice(urls, i, i + URL_BATCH_SIZE + 1)
    /\ groups' = Append(groups, batch')
    /\ future_to_url' = <<>>
    /\ yielded' = {}
    /\ pc' = "Submitting"
    /\ UNCHANGED <<probevars, sitemap_url, data, check_aem, URL_BATCH_SIZE, resolved, urls, i,
                   futures, results, sleeps, reply>>

\* lines 374-378: the next iteration of the batch loop begins
BeginBatch ==
    /\ pc = "Loop"
    /\ i < Len(urls)
    /\ batch' = Slice(urls, i, i + URL_BATCH_SIZE)
    /\ groups' = Append(groups, batch')
    /\ future_to_url' = <<>>
    /\ yielded' = {}
    /\ pc' = "Submitting"
    /\ UNCHANGED <<probevars, sitemap_url, data, check_aem, URL_BATCH_SIZE, resolved, urls, i,
                   futures, results, sleeps, reply>>

\* line 379: executor.submit for the next URL of the batch
Submit ==
    /\ pc = "Submitting"
    /\ LET p == i + Len(future_to_url) + 1
       IN  /\ futures' = (p :> [state |-> "PENDING", fetch |-> None, result |-> None]) @@ futures
           /\ future_to_url' = Append(future_to_url, p)
    /\ pc' = IF Len(future_to_url') = Len(batch) THEN "Collecting" ELSE "Submitting"
    /\ UNCHANGED <<probevars, sitemap_url, data, check_aem, URL_BATCH_SIZE, resolved, urls, i,
                   batch, yielded, results, sleeps, groups, reply>>

Running == {p \in DOMAIN futures : futures[p].state = "RUNNING"}

\* a pool that starts a thread for every submitted work item
Unbounded_WorkerStart(p) ==
    /\ p \in DOMAIN futures
    /\ futures[p].state = "PENDING"
    /\ futures' = [futures EXCEPT ![p].state = "RUNNING"]
    /\ UNCHANGED <<probevars, pc, sitemap_url, data, check_aem, URL_BATCH_SIZE, resolved, urls, i,
                   batch, future_to_url, yielded, results, sleeps, groups, reply>>

\* line 378: a worker thread of the pool takes the work item of position p;
\* the pool has max_workers threads, whatever the batch
WorkerStart(p) ==
    /\ p \in DOMAIN futures
    /\ futures[p].state = "PENDING"
    /\ Cardinality(Running) < max_workers
    /\ futures' = [futures EXCEPT ![p].state = "RUNNING"]
    /\ UNCHANGED <<probevars, pc, sitemap_url, data, check_aem, URL_BATCH_SIZE, resolved, urls, i,
                   batch, future_to_url, yielded, results, sleeps, groups, reply>>

\* a worker that also appends its record to the shared list when its call
\* returns
Appending_WorkerFinish(p, f) ==
    /\ p \in DOMAIN futures
    /\ futures[p].state = "RUNNING"
    /\ futures' = [futures EXCEPT ![p] =
                      [state |-> "FINISHED", fetch |-> Some(f),
                       result |-> Some(check_akamai_cache(urls[p], check_aem, f))]]
    /\ results' = Append(results, check_akamai_cache(urls[p], check_aem, f))
    /\ UNCHANGED <<probevars, pc, sitemap_url, data, check_aem, URL_BATCH_SIZE, resolved, urls, i,
                   batch, future_to_url, yielded, sleeps, groups, reply>>

\* the worker's call check_akamai_cache(url, check_aem) returns, requests.get
\* having done f
WorkerFinish(p, f) ==
    /\ p \in DOMAIN futures
    /\ futures[p].state = "RUNNING"
    /\ futures' = [futures EXCEPT ![p] =
                      [state |-> "FINISHED", fetch |-> Some(f),
                       result |-> Some(check_akamai_cache(urls[p], check_aem, f))]]
    /\ UNCHANGED <<probevars, pc, sitemap_url, data, check_aem, URL_BATCH_SIZE, resolved, urls, i,
                   batch, future_to_url, yielded, results, sleeps, groups, reply>>

\* lines 381-383 with future.result() raising for a failed probe, which ends
\* the handler in its except clause
Aborting_Collect(p) ==
    /\ pc = "Collecting"
    /\ \E k \in 1..Len(future_to_url) : future_to_url[k] = p
    /\ p \notin yielded
    /\ futures[p].state = "FINISHED"
    /\ IF futures[p].result[1].error # None
       THEN /\ reply' = Some(ErrorReply(500, futures[p].result[1].error[1]))
            /\ pc' = "Done"
            /\ UNCHANGED <<results, yielded>>
       ELSE /\ results' = Append(results, futures[p].result[1])
            /\ yielded' = yielded \cup {p}
            /\ UNCHANGED <<reply, pc>>
    /\ UNCHANGED <<probevars, sitemap_url, data, check_aem, URL_BATCH_SIZE, resolved, urls, i,
                   batch, futures, future_to_url, sleeps, groups>>

\* lines 381-383 inserting each result at the front of the list
Prepending_Collect(p) ==
    /\ pc = "Collecting"
    /\ \E k \in 1..Len(future_to_url) : future_to_url[k] = p
    /\ p \notin yielded
    /\ futures[p].state = "FINISHED"
    /\ results' = <<futures[p].result[1]>> \o results
    /\ yielded' = yielded \cup {p}
    /\ UNCHANGED <<probevars, pc, sitemap_url, data, check_aem, URL_BATCH_SIZE, resolved, urls, i,
                   batch, futures, future_to_url, sleeps, groups, reply>>

\* lines 381-383 with a loop that takes only the futures of successful probes
Picky_Collect(p) ==
    /\ pc = "Collecting"
    /\ \E k \in 1..Len(future_to_url) : future_to_url[k] = p
    /\ p \notin yielded
    /\ futures[p].state = "FINISHED"
    /\ futures[p].result[1].error = None
    /\ results' = Append(results, futures[p].result[1])
    /\ yielded' = yielded \cup {p}
    /\ UNCHANGED <<probevars, pc, sitemap_url, data, check_aem, URL_BATCH_SIZE, resolved, urls, i,
                   batch, futures, future_to_url, sleeps, groups, reply>>

\* lines 381-383: as_completed yields the finished future of position p
Collect(p) ==
    /\ pc = "Collecting"
    /\ \E k \in 1..Len(future_to_url) : future_to_url[k] = p
    /\ p \notin yielded
    /\ futures[p].state = "FINISHED"
    /\ results' = Append(results, futures[p].result[1])
    /\ yielded' = yielded \cup {p}
    /\ UNCHANGED <<probevars, pc, sitemap_url, data, check_aem, URL_BATCH_SIZE, resolved, urls, i,
                   batch, futures, future_to_url, sleeps, groups, reply>>

\* lines 381-387 leaving the batch after the first completed future, without
\* waiting for the rest
Hasty_ExitBatch ==
    /\ pc = "Collecting"
    /\ yielded # {}
    /\ IF i + URL_BATCH_SIZE < Len(urls)
       THEN /\ sleeps' = Append(sleeps, i)
            /\ pc' = "Waiting"
            /\ i' = i
       ELSE /\ sleeps' = sleeps
            /\ pc' = "Loop"
            /\ i' = i + URL_BATCH_SIZE
    /\ UNCHANGED <<probevars, sitemap_url, data, check_aem, URL_BATCH_SIZE, resolved, urls, batch,
                   futures, future_to_url, yielded, results, groups, reply>>

\* lines 381-387 with the test of line 386 written <=
Eager_ExitBatch ==
    /\ pc = "Collecting"
    /\ yielded = {future_to_url[k] : k \in 1..Len(future_to_url)}
    /\ \A k \in 1..Len(future_to_url) : futures[future_to_url[k]].state = "FINISHED"
    /\ IF i + URL_BATCH_SIZE <= Len(urls)
       THEN /\ sleeps' = Append(sleeps, i)
            /\ pc' = "Waiting"
            /\ i' = i
       ELSE /\ sleeps' = sleeps
            /\ pc' = "Loop"
            /\ i' = i + URL_BATCH_SIZE
    /\ UNCHANGED <<probevars, sitemap_url, data, check_aem, URL_BATCH_SIZE, resolved, urls, batch,
                   futures, future_to_url, yielded, results, groups, reply>>

\* lines 381-387: as_completed is exhausted and the executor shut down; the
\* handler calls time.sleep unless this was the last batch
ExitBatch ==
    /\ pc = "Collecting"
    /\ yielded = {future_to_url[k] : k \in 1..Len(future_to_url)}
    /\ \A k \in 1..Len(future_to_url) : futures[future_to_url[k]].state = "FINISHED"
    /\ IF i + URL_BATCH_SIZE < Len(urls)
       THEN /\ sleeps' = Append(sleeps, i)
            /\ pc' = "Waiting"
            /\ i' = i
       ELSE /\ sleeps' = sleeps
            /\ pc' = "Loop"
            /\ i' = i + URL_BATCH_SIZE
    /\ UNCHANGED <<probevars, sitemap_url, data, check_aem, URL_BATCH_SIZE, resolved, urls, batch,
                   futures, future_to_url, yielded, results, groups, reply>>

\* line 387: time.sleep(BATCH_DELAY) returns
WakeUp ==
    /\ pc = "Waiting"
    /\ i' = i + URL_BATCH_SIZE
    /\ pc' = "Loop"
    /\ UNCHANGED <<probevars, sitemap_url, data, check_aem, URL_BATCH_SIZE, resolved, urls, batch,
                   futures, future_to_url, yielded, results, sleeps, groups, reply>>

\* lines 389-433: the loop is over; the summary and the results are returned
Aggregate ==
    /\ pc = "Loop"
    /\ i >= Len(urls)
    /\ reply' = Some([status |-> 200, success |-> Some(TRUE), error |-> None,
                      summary |-> Some(Summary(results)), results |-> Some(results)])
    /\ pc' = "Done"
    /\ UNCHANGED <<probevars, sitemap_url, data, check_aem, URL_BATCH_SIZE, resolved, urls, i, batch,
                   futures, future_to_url, yielded, results, sleeps, groups>>

\* what requests.get does for the probes of a run
RunFetches ==
    { Raised("Connection timeout"),
      Response([status_code |-> "200", other |-> None, page |-> AemPage],
               Some(TCP_HIT), None, None, None),
      Response([status_code |-> "200", other |-> None, page |-> NoPage],
               None, None, None, Some(<<"V","E","5","0","1">>)) }

Next ==
    \/ RejectBlankUrl
    \/ ResolverRaises
    \/ NoUrls
    \/ \E n \in 1..MaxUrls : StartRun(n)
    \/ BeginBatch
    \/ Submit
    \/ \E p \in 1..Len(urls) : WorkerStart(p)
    \/ \E p \in 1..Len(urls), f \in RunFetches : WorkerFinish(p, f)
    \/ \E p \in 1..Len(urls) : Collect(p)
    \/ ExitBatch
    \/ WakeUp
    \/ Aggregate

Spec == Init /\ [][Next]_vars

(***************************************************************************)
(* The same handler on long lists, under one schedule of the pool: the     *)
(* probes of a batch run one after another in submission order, each       *)
(* collected before the next starts.  The partition of the list and the    *)
(* pauses are the coordinating flow's and do not depend on the schedule.   *)
(***************************************************************************)
\* the longest list the resolver returns under SpecSerial
MaxSerialUrls == 25
\* the widest batch tried under SpecSerial
MaxSerialBatch == 10

InitSerial ==
    /\ ProbeIdle
    /\ pc = "Pending"
    /\ sitemap_url = <<"h","t","t","p",":","/","/","s">>
    /\ data = WithFlag(NoConfig, Some(FALSE))
    /\ resolved = None
    /\ check_aem = ReadCheckAem(data)
    /\ URL_BATCH_SIZE \in 1..MaxSerialBatch
    /\ urls = <<>>
    /\ i = 0
    /\ batch = <<>>
    /\ futures = <<>>
    /\ future_to_url = <<>>
    /\ yielded = {}
    /\ results = <<>>
    /\ sleeps = <<>>
    /\ groups = <<>>
    /\ reply = None

\* every third probe fails, the others are hits
SerialFetch(p) ==
    IF p % 3 = 0 THEN Raised("Connection timeout")
    ELSE Response([status_code |-> "200", other |-> None, page |-> NoPage],
                  Some(TCP_HIT), None, None, None)

SerialTurn(p) ==
    /\ pc = "Collecting"
    /\ \A q \in DOMAIN futures : q < p => q \in yielded \/ q <= i

NextSerial ==
    \/ \E n \in 1..MaxSerialUrls : StartRun(n)
    \/ BeginBatch
    \/ Submit
    \/ \E p \in 1..Len(urls) : SerialTurn(p) /\ WorkerStart(p)
    \/ \E p \in 1..Len(urls) : WorkerFinish(p, SerialFetch(p))
    \/ \E p \in 1..Len(urls) : Collect(p)
    \/ ExitBatch
    \/ WakeUp
    \/ Aggregate

SpecSerial == InitSerial /\ [][NextSerial]_vars

(***************************************************************************)
(* The handler on one batch wider than the pool.  The executor's queue is  *)
(* first in, first out, so the work items start in submission order, while *)
(* the running probes finish in any order; as_completed is followed on the *)
(* schedule that yields the futures in submission order once all are done. *)
(***************************************************************************)
\* how far beyond max_workers the batch goes under SpecPool
MaxPoolExtra == 2

\* the handler before the request is looked at
Fresh ==
    /\ ProbeIdle
    /\ pc = "Pending"
    /\ resolved = None
    /\ urls = <<>>
    /\ i = 0
    /\ batch = <<>>
    /\ futures = <<>>
    /\ future_to_url = <<>>
    /\ yielded = {}
    /\ results = <<>>
    /\ sleeps = <<>>
    /\ groups = <<>>
    /\ reply = None

InitPool ==
    /\ Fresh
    /\ sitemap_url = <<"h","t","t","p",":","/","/","s">>
    /\ data = WithFlag(NoConfig, Some(FALSE))
    /\ check_aem = ReadCheckAem(data)
    /\ URL_BATCH_SIZE \in (max_workers + 1)..(max_workers + MaxPoolExtra)

QueueTurn(p) == \A q \in DOMAIN futures : q < p => futures[q].state # "PENDING"

YieldTurn(p) ==
    /\ \A q \in DOMAIN futures : futures[q].state = "FINISHED"
    /\ \A q \in DOMAIN futures : q < p => q \in yielded

NextPool ==
    \/ StartRun(URL_BATCH_SIZE)
    \/ BeginBatch
    \/ Submit
    \/ \E p \in 1..Len(urls) : QueueTurn(p) /\ WorkerStart(p)
    \/ \E p \in 1..Len(urls) : WorkerFinish(p, SerialFetch(p))
    \/ \E p \in 1..Len(urls) : YieldTurn(p) /\ Collect(p)
    \/ ExitBatch
    \/ Aggregate

SpecPool == InitPool /\ [][NextPool]_vars

(***************************************************************************)
(* The handler from the resolver's answer on, with the fairness its        *)
(* scheduling gives: the handler's thread always takes its next step       *)
(* (time.sleep returns), an idle pool thread takes a queued work item, and *)
(* requests.get, called with timeout=15, returns or raises.                *)
(***************************************************************************)
\* the longest list the resolver returns under SpecFair
MaxFairUrls == 3
\* the widest batch tried under SpecFair
MaxFairBatch == 2

InitFair ==
    /\ Fresh
    /\ sitemap_url = <<"h","t","t","p",":","/","/","s">>
    /\ data = WithFlag(NoConfig, Some(FALSE))
    /\ check_aem = ReadCheckAem(data)
    /\ URL_BATCH_SIZE \in 1..MaxFairBatch

\* the steps of the thread that runs test_sitemap
HandlerStep ==
    \/ \E n \in 1..MaxFairUrls : StartRun(n)
    \/ BeginBatch
    \/ Submit
    \/ \E p \in 1..Len(urls) : Collect(p)
    \/ ExitBatch
    \/ WakeUp
    \/ Aggregate

NextFair ==
    \/ HandlerStep
    \/ \E p \in 1..Len(urls) : WorkerStart(p)
    \/ \E p \in 1..Len(urls), f \in RunFetches : WorkerFinish(p, f)

SpecFair ==
    /\ InitFair /\ [][NextFair]_vars
    /\ WF_vars(HandlerStep)
    /\ \A p \in 1..MaxFairUrls : WF_vars(WorkerStart(p))
    /\ \A p \in 1..MaxFairUrls : WF_vars(\E f \in RunFetches : WorkerFinish(p, f))

(***************************************************************************)
(* The handler on lists about as long as the limit max_urls, with the      *)
(* batch size of line 42 and the serial schedule of the pool.              *)
(***************************************************************************)
\* how far beyond max_urls the resolver's list goes under SpecLong
MaxExcess == 2

InitLong ==
    /\ Fresh
    /\ sitemap_url = <<"h","t","t","p",":","/","/","s">>
    /\ data = WithFlag(NoConfig, Some(FALSE))
    /\ check_aem = ReadCheckAem(data)
    /\ URL_BATCH_SIZE = 3

NextLong ==
    \/ \E n \in (max_urls - 1)..(max_urls + MaxExcess) : StartRun(n)
    \/ BeginBatch
    \/ Submit
    \/ \E p \in 1..Len(urls) : SerialTurn(p) /\ WorkerStart(p)
    \/ \E p \in 1..Len(urls) : WorkerFinish(p, SerialFetch(p))
    \/ \E p \in 1..Len(urls) : Collect(p)
    \/ ExitBatch
    \/ WakeUp
    \/ Aggregate

SpecLong == InitLong /\ [][NextLong]_vars

(***************************************************************************)
(* The handler on requests that carry batch_size, batch_delay and          *)
(* max_urls next to sitemap_url.  Lines 350-352 read sitemap_url and       *)
(* check_aem and no other key, so these fields are part of the request and *)
(* of nothing else; the batch size is URL_BATCH_SIZE of line 42.           *)
(***************************************************************************)
\* the longest list the resolver returns under SpecConfig
MaxConfigUrls == 10

ConfigData ==
    [check_aem : {Some(FALSE)},
     batch_size : {None, Some(0), Some(2)},
     batch_delay : {None, Some(-1)},
     max_urls : {None, Some(0), Some(5)}]

InitConfig ==
    /\ Fresh
    /\ sitemap_url = <<"h","t","t","p",":","/","/","s">>
    /\ data \in ConfigData
    /\ check_aem = ReadCheckAem(data)
    /\ URL_BATCH_SIZE = 3

NextConfig ==
    \/ ResolverRaises
    \/ NoUrls
    \/ \E n \in 1..MaxConfigUrls : StartRun(n)
    \/ BeginBatch
    \/ Submit
    \/ \E p \in 1..Len(urls) : SerialTurn(p) /\ WorkerStart(p)
    \/ \E p \in 1..Len(urls) : WorkerFinish(p, SerialFetch(p))
    \/ \E p \in 1..Len(urls) : Collect(p)
    \/ ExitBatch
    \/ WakeUp
    \/ Aggregate

SpecConfig == InitConfig /\ [][NextConfig]_vars

(***************************************************************************)
(* The statistics of lines 389-426, which read the results and nothing     *)
(* else.  The handler is taken where the loop of line 374 has just ended,  *)
(* the probes having fetched fs[1], fs[2], ... and finished in this order. *)
(***************************************************************************)
\* the longest result sequence under SpecSummary
MaxResults == 3

AtLoopEnd(fs) ==
    LET n == Len(fs)
        b == URL_BATCH_SIZE
        us == [k \in 1..n |-> k]
        g == (n + b - 1) \div b
        record(k) == check_akamai_cache(k, check_aem, fs[k])
    IN  /\ ProbeIdle
        /\ pc = "Loop"
        /\ sitemap_url = <<"h","t","t","p",":","/","/","s">>
        /\ data = WithFlag(NoConfig, Some(check_aem))
        /\ resolved = Some([raised |-> None, urls |-> us])
        /\ urls = us
        /\ i = g * b
        /\ batch = Slice(us, (g - 1) * b, g * b)
        /\ futures = [k \in 1..n |-> [state |-> "FINISHED", fetch |-> Some(fs[k]),
                                      result |-> Some(record(k))]]
        /\ future_to_url = batch
        /\ yielded = {batch[k] : k \in 1..Len(batch)}
        /\ results = [k \in 1..n |-> record(k)]
        /\ sleeps = [k \in 1..(g - 1) |-> (k - 1) * b]
        /\ groups = [k \in 1..g |-> Slice(us, (k - 1) * b, k * b)]
        /\ reply = None

\* one fetch or more for every verdict
SummaryFetches ==
    { Raised("Connection timeout"),
      Response(Plain(NoPage), Some(TCP_HIT), None, None, None),
      Response(Plain(AemPage), Some(TCP_HIT), None, None, None),
      Response(Plain(NoPage), Some(TCP_MISS), None, None, None),
      Response(Plain(NoPage), Some(TCP_REFRESH_HIT), None, None, None),
      Response(Plain(NoPage), Some(TCP_REFRESH_MISS), None, None, None),
      Response(Plain(NoPage), None, Some(CacheableNO), None, None),
      Response(Plain(NoPage), None, None, None, Some(<<"V","E","9","9">>)),
      Response(Plain(AemPage), None, None, None, Some(<<"V","E","5","0","1">>)),
      Response(Plain(NoPage), None, None, None, Some(<<"V","E","1","0","0">>)),
      Response(Plain(NoPage), None, None, None, None) }

InitSummary ==
    /\ check_aem \in BOOLEAN
    /\ URL_BATCH_SIZE = 3
    /\ \E n \in 1..MaxResults : \E fs \in [1..n -> SummaryFetches] : AtLoopEnd(fs)

NextSummary == Aggregate

SpecSummary == InitSummary /\ [][NextSummary]_vars

(***************************************************************************)
(* The same statistics on longer results, drawn by the number of records   *)
(* of each kind.                                                           *)
(***************************************************************************)
\* the most records of one kind under SpecRatio
MaxPerKind == 3

\* a confirmed hit, an inferred hit, a miss, a page that is not cacheable,
\* a failure
RatioFetches ==
    << Response(Plain(NoPage), Some(TCP_HIT), None, None, None),
       Response(Plain(NoPage), None, None, None, Some(<<"V","E","9","9">>)),
       Response(Plain(NoPage), Some(TCP_MISS), None, None, None),
       Response(Plain(NoPage), None, Some(CacheableNO), None, None),
       Raised("Connection timeout") >>

\* counts[k] fetches of kind k, kind after kind
RECURSIVE FetchesOfKinds(_, _)
FetchesOfKinds(counts, k) ==
    IF k > Len(counts) THEN <<>>
    ELSE Repeat(RatioFetches[k], counts[k]) \o FetchesOfKinds(counts, k + 1)

InitRatio ==
    /\ check_aem = FALSE
    /\ URL_BATCH_SIZE = 3
    /\ \E counts \in [1..Len(RatioFetches) -> 0..MaxPerKind] :
          /\ \E k \in DOMAIN counts : counts[k] > 0
          /\ AtLoopEnd(FetchesOfKinds(counts, 1))

NextRatio == Aggregate

SpecRatio == InitRatio /\ [][NextRatio]_vars

(***************************************************************************)
(* Claims about check_akamai_cache (checked under SpecProbe).              *)
(***************************************************************************)
Returned == p_pc = "returned"
Rec == p_record[1]
FetchOk == p_fetch.exception = None

\* the signals the call extracted, as the returned record echoes them
RulesOneToSix(r, rule6) ==
    << Contains(r.x_cache, TCP_HIT) \/ Contains(r.x_cache, TCP_MEM_HIT),
       Contains(r.x_cache, TCP_MISS),
       Contains(r.x_cache, TCP_REFRESH_HIT),
       Contains(r.x_cache, TCP_REFRESH_MISS),
       r.x_check_cacheable = CacheableNO,
       rule6 >>

TimingVerdict(t) ==
    IF t < 100 THEN "HIT (inferred from timing)"
    ELSE IF t > 500 THEN "MISS (inferred from timing)"
    ELSE "UNKNOWN (timing inconclusive)"

\* the elapsed time the timing header yields: Some(t), or None when it has no
\* VE segment or the segment is no integer
Elapsed(r) ==
    IF r.x_timer # NOT_FOUND /\ Contains(r.x_timer, VE) THEN int(VePart(r.x_timer)) ELSE None

\* the verdict of the first rule of the ladder 1..8 that matches, rule 6 given
LadderVerdict(r, rule6) ==
    LET m == RulesOneToSix(r, rule6)
        first == IF \E k \in 1..6 : m[k]
                 THEN CHOOSE k \in 1..6 : m[k] /\ \A j \in 1..(k - 1) : ~m[j]
                 ELSE IF Elapsed(r) # None THEN 7 ELSE 8
    IN  CASE first = 1 -> "HIT"
          [] first = 2 -> "MISS"
          [] first = 3 -> "REFRESH_HIT"
          [] first = 4 -> "REFRESH_MISS"
          [] first = 5 -> "NOT_CACHEABLE"
          [] first = 6 -> "HIT"
          [] first = 7 -> TimingVerdict(Elapsed(r)[1])
          [] first = 8 -> "UNKNOWN"

\* C1 as stated: on a successful fetch the verdict is that of the first rule
\* that matches in the order 1..8, rule 6 being "Age != '0'".
C1_FirstRuleWins_AgeNotZero ==
    (Returned /\ FetchOk) => Rec.cache_hit = LadderVerdict(Rec, Rec.age # AgeZero)

\* C1 amended: on a successful fetch the verdict is that of the first rule
\* that matches in the order 1..8, rule 6 being "Age is non-empty and != '0'";
\* a later rule never overrides an earlier matching one.
C1_FirstRuleWins ==
    (Returned /\ FetchOk) =>
        Rec.cache_hit = LadderVerdict(Rec, Rec.age # <<>> /\ Rec.age # AgeZero)

\* X-Cache contains TCP_HIT (rule 1) and TCP_MISS (rule 2) while
\* X-Check-Cacheable is 'NO' (rule 5) and Age is '5' (rule 6): the verdict is HIT
C1_Witness ==
    /\ Returned /\ FetchOk
    /\ Contains(Rec.x_cache, TCP_HIT) /\ Contains(Rec.x_cache, TCP_MISS)
    /\ Rec.x_check_cacheable = CacheableNO
    /\ Rec.age = <<"5">>
    /\ Rec.cache_hit = "HIT"

Verdicts ==
    {"HIT", "MISS", "REFRESH_HIT", "REFRESH_MISS", "NOT_CACHEABLE", "UNKNOWN",
     "UNKNOWN (timing inconclusive)", "HIT (inferred from timing)",
     "MISS (inferred from timing)"}

\* C2: for every set of signals of a successful fetch, absent and malformed
\* headers included, the call returns a record without an error whose verdict
\* is one of the nine classifier verdicts.
C2_ClassifierTotal ==
    (Returned /\ FetchOk) => (Rec.cache_hit \in Verdicts /\ Rec.error = None)

\* a timing header whose VE segment is no integer, reached by the timing rule
C2_Witness ==
    /\ Returned /\ FetchOk
    /\ Contains(Rec.x_timer, VE) /\ int(VePart(Rec.x_timer)) = None
    /\ p_fetch.headers["X-Cache"] = None /\ p_fetch.headers["Age"] = None
    /\ Rec.cache_hit = "UNKNOWN"

\* C3: when none of the rules 1-6 matches and the timing header yields the
\* integer t, the verdict is 'HIT (inferred from timing)' for t < 100, 'MISS
\* (inferred from timing)' for t > 500 and 'UNKNOWN (timing inconclusive)' for
\* 100 <= t <= 500, and response_time_ms is t.
C3_TimingThresholds ==
    (/\ Returned /\ FetchOk
     /\ \A k \in 1..6 : ~RulesOneToSix(Rec, Rec.age # <<>> /\ Rec.age # AgeZero)[k]
     /\ Elapsed(Rec) # None)
    => LET t == Elapsed(Rec)[1]
       IN  /\ t < 100 => Rec.cache_hit = "HIT (inferred from timing)"
           /\ t > 500 => Rec.cache_hit = "MISS (inferred from timing)"
           /\ (t >= 100 /\ t <= 500) => Rec.cache_hit = "UNKNOWN (timing inconclusive)"
           /\ Rec.response_time_ms = Some(t)

\* the boundary t = 100 is inconclusive
C3_Witness ==
    /\ Returned /\ FetchOk
    /\ Rec.x_timer = <<"S","1",",","V","E","1","0","0">>
    /\ Rec.response_time_ms = Some(100)
    /\ Rec.cache_hit = "UNKNOWN (timing inconclusive)"

SuccessShaped(r) ==
    /\ r.error = None
    /\ r.cache_hit \in Verdicts
    /\ r.status_code = p_fetch.status_code

ErrorShaped(r) ==
    /\ r.error = p_fetch.exception /\ r.error # None
    /\ r.status_code = "ERROR"
    /\ r.cache_hit = "ERROR"
    /\ \A v \in {r.x_cache, r.x_cache_remote, r.x_check_cacheable, r.x_cache_key,
                 r.x_true_cache_key, r.x_served_by, r.x_timer, r.age, r.cache_control} :
           v = ERROR

\* C4: every call returns one record, which is either a success record (no
\* error, a classifier verdict, the HTTP status) or a failure record (the
\* captured message, and 'ERROR' as status_code, cache_hit and every header
\* echo), never both and never neither.
C4_OneShape ==
    Returned =>
        /\ Len(p_record) = 1
        /\ SuccessShaped(Rec) # ErrorShaped(Rec)
        /\ SuccessShaped(Rec) <=> FetchOk

\* the fetch raised and the call returned the failure record
C4_Witness ==
    /\ Returned /\ ~FetchOk
    /\ Rec.error = Some("Connection timeout")
    /\ Rec.x_timer = ERROR

(***************************************************************************)
(* Claims about the run (checked under Spec and SpecSerial).               *)
(***************************************************************************)
Done == pc = "Done"
Succeeded == pc = "Done" /\ reply[1].success = Some(TRUE)

\* the 0-based number of the group the URL at position p belongs to
Group(p) == (p - 1) \div URL_BATCH_SIZE

\* the probes submitted to the pool and not yet finished
InFlight == {p \in DOMAIN futures : futures[p].state \in {"PENDING", "RUNNING"}}

\* the positions whose fetch raised
Failed == {p \in DOMAIN futures : futures[p].fetch # None /\ futures[p].fetch[1].exception # None}

RecordsOf(p) == {k \in 1..Len(results) : results[k].url = urls[p]}

RecordErrorShaped(r) ==
    /\ r.error # None
    /\ r.status_code = "ERROR"
    /\ r.cache_hit = "ERROR"
    /\ \A v \in {r.x_cache, r.x_cache_remote, r.x_check_cacheable, r.x_cache_key,
                 r.x_true_cache_key, r.x_served_by, r.x_timer, r.age, r.cache_control} :
           v = ERROR

\* C5: whatever subset of the probes fails, a run that began probing ends with
\* the success reply; every URL has exactly one record, the record of a failed
\* URL is error-shaped and carries the captured message, that of any other URL
\* is a success record, and the summary's errors counter is the number of
\* failed probes.
C5_FailuresIsolated ==
    (Done /\ urls # <<>>) =>
        /\ reply[1].success = Some(TRUE) /\ reply[1].status = 200
        /\ reply[1].results = Some(results)
        /\ \A p \in 1..Len(urls) :
              /\ Cardinality(RecordsOf(p)) = 1
              /\ \A k \in RecordsOf(p) :
                    IF p \in Failed
                    THEN RecordErrorShaped(results[k])
                         /\ results[k].error = futures[p].fetch[1].exception
                    ELSE results[k].error = None /\ results[k].cache_hit \in Verdicts
        /\ reply[1].summary[1].errors = Cardinality(Failed)

\* a finished run in which one probe failed and another one did not
C5_Witness ==
    /\ Succeeded
    /\ Len(urls) = 3
    /\ Failed = {2}
    /\ reply[1].summary[1].errors = 1
    /\ reply[1].summary[1].total_urls = 3

CeilDiv(n, b) == (n + b - 1) \div b

\* C6: group k is the consecutive URLs at the (0-based) positions
\* (k-1)*b .. min(k*b, n)-1 of the list; a finished run has dispatched
\* exactly ceil(n/b) groups, all of size b but the last, whose size is
\* between 1 and b.
C6_ConsecutiveGroups ==
    LET n == Len(urls)
        b == URL_BATCH_SIZE
    IN  /\ \A k \in 1..Len(groups) :
              /\ groups[k] = [j \in 1..(Min(k * b, n) - (k - 1) * b) |-> urls[(k - 1) * b + j]]
              /\ Len(groups[k]) >= 1 /\ Len(groups[k]) <= b
              /\ k < CeilDiv(n, b) => Len(groups[k]) = b
        /\ Len(groups) <= CeilDiv(n, b)
        /\ Succeeded => Len(groups) = CeilDiv(n, b)

\* 25 URLs in batches of 10: 3 groups, the last of 5
C6_Witness ==
    /\ Succeeded
    /\ Len(urls) = 25 /\ URL_BATCH_SIZE = 10
    /\ Len(groups) = 3
    /\ Len(groups[3]) = 5

\* C7: a pause follows each group but the last, after the whole group has
\* completed and before the next group is dispatched: while group k is
\* dispatched k-1 pauses have occurred, during a pause the group before it is
\* complete and nothing of the next is submitted, and a finished run of N
\* groups has had exactly N-1 pauses.
C7_PausesBetweenGroups ==
    /\ \A k \in 1..Len(sleeps) : sleeps[k] = (k - 1) * URL_BATCH_SIZE
    /\ pc \in {"Submitting", "Collecting"} => Len(sleeps) = Len(groups) - 1
    /\ pc = "Waiting" =>
          /\ Len(sleeps) = Len(groups)
          /\ Len(groups) < CeilDiv(Len(urls), URL_BATCH_SIZE)
          /\ DOMAIN futures = 1..(i + URL_BATCH_SIZE)
          /\ InFlight = {}
          /\ Len(results) = i + URL_BATCH_SIZE
    /\ Succeeded =>
          /\ Len(groups) = CeilDiv(Len(urls), URL_BATCH_SIZE)
          /\ Len(sleeps) = Len(groups) - 1

\* 24 URLs in batches of 3, an exact multiple: 8 groups and 7 pauses
C7_Witness ==
    /\ Succeeded
    /\ Len(urls) = 24 /\ URL_BATCH_SIZE = 3
    /\ Len(groups) = 8
    /\ Len(sleeps) = 7

\* C8: at every moment all probes in flight belong to the same group, the one
\* dispatched last; no probe of a later group exists while one is in flight.
C8_OneGroupInFlight ==
    \A p \in InFlight :
        /\ Group(p) = Len(groups) - 1
        /\ \A q \in DOMAIN futures : Group(q) <= Group(p)

\* two probes of the second group run while a third one waits to be collected
C8_Witness ==
    /\ Len(groups) = 2
    /\ URL_BATCH_SIZE = 2
    /\ Cardinality(Running) = 2
    /\ futures[1].state = "FINISHED"

IsPrefix(a, b) == Len(a) <= Len(b) /\ SubSeq(b, 1, Len(a)) = a

GroupOrdered ==
    \A a, b \in 1..Len(results) :
        a < b => Group(results[a].url) <= Group(results[b].url)

\* C9: the run-level result list only grows at its end (no record is removed,
\* moved or changed), and every record of a group precedes every record of a
\* later group, under every completion order inside the groups.
C9_AppendOnlyGroupOrdered ==
    [][IsPrefix(results, results')]_vars /\ []GroupOrdered

\* the probes of the first group were collected in the reverse of their
\* submission order, and the second group's record follows them
C9_Witness ==
    /\ Len(results) = 3
    /\ URL_BATCH_SIZE = 2
    /\ results[1].url = 2 /\ results[2].url = 1 /\ results[3].url = 3

\* C10 as stated: the run-level list holds no record of a group that still
\* has a probe in flight.
C10_NoRecordOfUnfinishedGroup ==
    \A k \in 1..Len(results) : \A p \in InFlight : Group(p) # Group(results[k].url)

\* C10 amended: a record enters the run-level list only after its own probe
\* has completed, and all records of a group are in the list before any probe
\* of the next group is submitted.
C10_RecordsBeforeNextGroup ==
    /\ \A k \in 1..Len(results) :
          /\ results[k].url \in DOMAIN futures
          /\ futures[results[k].url].state = "FINISHED"
    /\ \A p \in DOMAIN futures : \A q \in 1..Len(urls) :
          Group(q) < Group(p) => RecordsOf(q) # {}

\* a record of the second group is in the list while another probe of that
\* group is still running
C10_Witness ==
    /\ Len(results) = 3
    /\ URL_BATCH_SIZE = 2
    /\ results[3].url = 4
    /\ futures[3].state = "RUNNING"

\* C11: the probes running at one time are never more than max_workers, a
\* constant that is the same for every batch size, and a submitted probe
\* leaves the queue only when fewer than max_workers probes are running; with
\* a batch wider than the pool the others stay queued.
C11_PoolWidth ==
    /\ [](max_workers = 10 /\ Cardinality(Running) <= max_workers)
    /\ [][\A p \in DOMAIN futures :
            futures[p].state = "PENDING" /\ futures'[p].state = "RUNNING"
                => Cardinality(Running) < max_workers]_vars

C11_Witness ==
    /\ URL_BATCH_SIZE > max_workers
    /\ Len(future_to_url) = URL_BATCH_SIZE
    /\ Cardinality(Running) = max_workers
    /\ \E p \in DOMAIN futures : futures[p].state = "PENDING"

\* the URLs the resolver returned
Resolved == IF resolved # None /\ resolved[1].raised = None THEN resolved[1].urls ELSE <<>>

\* how many times the URL u has been handed to the pool
Submissions(u) ==
    Cardinality({gk \in (1..Len(groups)) \X (1..Len(urls)) :
                    /\ gk[2] <= Len(groups[gk[1]])
                    /\ (gk[1] < Len(groups) \/ pc # "Submitting" \/ gk[2] <= Len(future_to_url))
                    /\ groups[gk[1]][gk[2]] = u})

\* C12: when the resolver returns n URLs, the first min(n, 100) of them in
\* resolver order are the ones probed; no URL beyond position 100 is ever
\* handed to the pool; the run ends with the success reply, in which
\* total_urls is min(n, 100) and every retained URL was probed exactly once.
C12_TruncatedToMax ==
    LET n == Len(Resolved)
        kept == Min(n, max_urls)
    IN  /\ max_urls = 100
        /\ pc \notin {"Pending", "Idle"} => urls = SubSeq(Resolved, 1, kept)
        /\ \A p \in DOMAIN futures : urls[p] = Resolved[p] /\ p <= max_urls
        /\ \A u \in 1..n : u > max_urls => Submissions(u) = 0
        /\ Done =>
              /\ reply[1].status = 200 /\ reply[1].success = Some(TRUE)
              /\ reply[1].error = None
              /\ reply[1].summary[1].total_urls = kept
              /\ Len(reply[1].results[1]) = kept
              /\ \A u \in 1..kept : Submissions(u) = 1

C12_Witness ==
    /\ Done
    /\ Len(Resolved) > max_urls
    /\ reply[1].summary[1].total_urls = max_urls
    /\ Submissions(max_urls) = 1

BadBatchSize == data.batch_size # None /\ data.batch_size[1] <= 0
BadBatchDelay == data.batch_delay # None /\ data.batch_delay[1] < 0
BadMaxUrls == data.max_urls # None /\ data.max_urls[1] <= 0

\* the messages of the handler's error replies, as characters
MessageChars(m) ==
    CASE m = "Please provide a sitemap URL" ->
            <<"P","l","e","a","s","e"," ","p","r","o","v","i","d","e"," ","a"," ",
              "s","i","t","e","m","a","p"," ","U","R","L">>
      [] m = "No URLs found in sitemap" ->
            <<"N","o"," ","U","R","L","s"," ","f","o","u","n","d"," ","i","n"," ",
              "s","i","t","e","m","a","p">>
      [] m = "Error parsing sitemap: unreachable" ->
            <<"E","r","r","o","r"," ","p","a","r","s","i","n","g"," ","s","i","t","e","m","a","p",
              ":"," ","u","n","r","e","a","c","h","a","b","l","e">>
      [] m = "Error parsing sitemap: 404 Not Found" ->
            <<"E","r","r","o","r"," ","p","a","r","s","i","n","g"," ","s","i","t","e","m","a","p",
              ":"," ","4","0","4"," ","N","o","t"," ","F","o","u","n","d">>

BatchSizeWords == <<"B","a","t","c","h"," ","s","i","z","e">>
BatchDelayWords == <<"B","a","t","c","h"," ","d","e","l","a","y">>
MaxUrlsWords == <<"M","a","x"," ","U","R","L","s">>

\* C13 as stated: a request with batch_size <= 0, batch_delay < 0 or
\* max_urls <= 0 never reaches the resolver or a probe, and its reply is a
\* 400 whose message mentions the field that is wrong.
C13_InvalidConfigRejected ==
    BadBatchSize \/ BadBatchDelay \/ BadMaxUrls =>
        /\ resolved = None
        /\ futures = <<>>
        /\ Done =>
              /\ reply[1].status = 400
              /\ reply[1].error # None
              /\ LET text == MessageChars(reply[1].error[1])
                 IN  \/ BadBatchSize /\ Contains(text, BatchSizeWords)
                     \/ BadBatchDelay /\ Contains(text, BatchDelayWords)
                     \/ BadMaxUrls /\ Contains(text, MaxUrlsWords)

\* a request with batch_size 0 is run to the end like any other
C13_Witness ==
    /\ BadBatchSize /\ ~BadBatchDelay /\ ~BadMaxUrls
    /\ Done
    /\ reply[1].status = 200
    /\ Len(reply[1].results[1]) = Len(Resolved)
    /\ Len(Resolved) >= 1

\* C14 as stated: when the request carries max_urls = m >= 1 and the
\* resolver returns n URLs, the first min(n, m) URLs are probed, each once,
\* no other URL is probed, and total_urls is min(n, m).
C14_MaxUrlsGoverns ==
    data.max_urls # None /\ data.max_urls[1] >= 1 /\ ~BadBatchSize /\ ~BadBatchDelay =>
        LET n == Len(Resolved)
            kept == Min(n, data.max_urls[1])
        IN  /\ \A u \in 1..n : u > kept => Submissions(u) = 0
            /\ Done /\ n >= 1 =>
                  /\ reply[1].summary # None
                  /\ reply[1].summary[1].total_urls = kept
                  /\ \A u \in 1..kept : Submissions(u) = 1

\* ten URLs with max_urls = 5: all ten are probed
C14_Witness ==
    /\ data.max_urls = Some(5) /\ ~BadBatchSize /\ ~BadBatchDelay
    /\ Len(Resolved) = 10
    /\ Done
    /\ reply[1].summary[1].total_urls = 10
    /\ \A u \in 1..10 : Submissions(u) = 1

\* an error reply and nothing else, sent before any probe was dispatched
OnlyError(status, message) ==
    /\ reply[1].status = status
    /\ reply[1].error = Some(message)
    /\ reply[1].success = None
    /\ reply[1].summary = None
    /\ reply[1].results = None
    /\ futures = <<>> /\ groups = <<>> /\ results = <<>>

\* C15: a run whose sitemap URL is missing or blank ends with a 400, one
\* whose resolver raises with a 500 that carries the resolver's message, one
\* whose resolver returns no URL with a 400, each an error without summary or
\* results and without any probe dispatched; every other run ends with the
\* success reply and exactly one record per retained URL.  No reply carries
\* an error together with results, and no probe exists before the resolver
\* has returned URLs.
C15_FailEarlyOrSucceed ==
    /\ futures # <<>> => Resolved # <<>>
    /\ reply # None /\ reply[1].error # None =>
          reply[1].results = None /\ reply[1].summary = None
    /\ Done =>
          IF Strip(sitemap_url) = <<>>
          THEN resolved = None /\ OnlyError(400, "Please provide a sitemap URL")
          ELSE /\ resolved # None
               /\ IF resolved[1].raised # None
                  THEN OnlyError(500, resolved[1].raised[1])
                  ELSE IF resolved[1].urls = <<>>
                  THEN OnlyError(400, "No URLs found in sitemap")
                  ELSE /\ reply[1].status = 200 /\ reply[1].success = Some(TRUE)
                       /\ reply[1].error = None
                       /\ reply[1].results = Some(results)
                       /\ reply[1].summary # None
                       /\ Len(results) = Len(urls)
                       /\ \A p \in 1..Len(urls) : Cardinality(RecordsOf(p)) = 1

\* the resolver raised and the reply is the 500 with its message
C15_Witness ==
    /\ Done
    /\ resolved # None /\ resolved[1].raised = Some("Error parsing sitemap: 404 Not Found")
    /\ OnlyError(500, "Error parsing sitemap: 404 Not Found")

HitVerdicts == {"HIT", "REFRESH_HIT", "HIT (inferred from timing)"}
MissVerdicts == {"MISS", "REFRESH_MISS", "MISS (inferred from timing)"}
UnknownVerdicts == {"UNKNOWN", "UNKNOWN (timing inconclusive)"}

\* the number of records of results whose verdict is in the set vs
RECURSIVE Tally(_, _)
Tally(rs, vs) ==
    IF rs = <<>> THEN 0
    ELSE (IF Head(rs).cache_hit \in vs THEN 1 ELSE 0) + Tally(Tail(rs), vs)

RECURSIVE TallyAem(_)
TallyAem(rs) ==
    IF rs = <<>> THEN 0
    ELSE (IF Head(rs).is_aem # None /\ Head(rs).is_aem[1] THEN 1 ELSE 0) + TallyAem(Tail(rs))

\* C16: in the success reply every counter of the summary is the number of
\* records of the results that its definition names: the verdicts that
\* contain HIT, MISS or UNKNOWN for cache_hits, cache_misses and unknown, the
\* exact verdicts for the confirmed, inferred, not_cacheable and errors
\* counters, the records whose platform detection is present and true for
\* total_aem_detected, and all the records for total_urls.
C16_CountersAsDefined ==
    Done /\ reply[1].summary # None =>
        LET sm == reply[1].summary[1]
            rs == reply[1].results[1]
        IN  /\ \A k \in 1..Len(rs) : rs[k].cache_hit \in Verdicts \cup {"ERROR"}
            /\ sm.total_urls = Len(rs)
            /\ sm.cache_hits = Tally(rs, HitVerdicts)
            /\ sm.cache_misses = Tally(rs, MissVerdicts)
            /\ sm.confirmed_hits = Tally(rs, {"HIT", "REFRESH_HIT"})
            /\ sm.inferred_hits = Tally(rs, {"HIT (inferred from timing)"})
            /\ sm.confirmed_misses = Tally(rs, {"MISS", "REFRESH_MISS"})
            /\ sm.inferred_misses = Tally(rs, {"MISS (inferred from timing)"})
            /\ sm.not_cacheable = Tally(rs, {"NOT_CACHEABLE"})
            /\ sm.errors = Tally(rs, {"ERROR"})
            /\ sm.unknown = Tally(rs, UnknownVerdicts)
            /\ sm.total_aem_detected = TallyAem(rs)

\* an inferred hit, an inferred miss on a detected page and a failure
C16_Witness ==
    /\ Done /\ reply[1].summary # None
    /\ LET sm == reply[1].summary[1]
       IN  /\ sm.total_urls = 3
           /\ sm.cache_hits = 1 /\ sm.inferred_hits = 1 /\ sm.confirmed_hits = 0
           /\ sm.cache_misses = 1 /\ sm.inferred_misses = 1
           /\ sm.errors = 1
           /\ sm.total_aem_detected = 1

\* C17: with cacheable_total = total - not_cacheable - errors and hits the
\* records whose verdict contains HIT, cache_hit_ratio is 0 when
\* cacheable_total is 0 and otherwise hits / cacheable_total * 100 rounded to
\* two decimals (in hundredths: the integer nearest to
\* hits * 10000 / cacheable_total); the reply is always produced; 3 HIT, 3
\* inferred HIT, 2 MISS, 1 NOT_CACHEABLE and 1 ERROR give 75.0.
C17_HitRatio ==
    /\ pc = "Loop" /\ i >= Len(urls) => ENABLED Aggregate
    /\ Done /\ reply[1].summary # None =>
          LET rs == reply[1].results[1]
              ratio == reply[1].summary[1].cache_hit_ratio
              hits == Tally(rs, HitVerdicts)
              cacheable_total == Len(rs) - Tally(rs, {"NOT_CACHEABLE"}) - Tally(rs, {"ERROR"})
          IN  /\ cacheable_total = 0 => ratio = 0
              /\ cacheable_total > 0 =>
                    /\ 2 * (ratio * cacheable_total - hits * 10000) <= cacheable_total
                    /\ 2 * (hits * 10000 - ratio * cacheable_total) <= cacheable_total
              /\ ( /\ Tally(rs, {"HIT"}) = 3
                   /\ Tally(rs, {"HIT (inferred from timing)"}) = 3
                   /\ Tally(rs, {"MISS"}) = 2
                   /\ Tally(rs, {"NOT_CACHEABLE"}) = 1
                   /\ Tally(rs, {"ERROR"}) = 1
                   /\ Len(rs) = 10 ) => ratio = 7500

\* the ten records of the example and their ratio
C17_Witness ==
    /\ Done /\ reply[1].summary # None
    /\ Len(reply[1].results[1]) = 10
    /\ Tally(reply[1].results[1], {"HIT"}) = 3
    /\ Tally(reply[1].results[1], {"HIT (inferred from timing)"}) = 3
    /\ Tally(reply[1].results[1], {"MISS"}) = 2
    /\ Tally(reply[1].results[1], {"NOT_CACHEABLE"}) = 1
    /\ reply[1].summary[1].errors = 1
    /\ reply[1].summary[1].cache_hit_ratio = 7500

\* the page the probe fetched and what detect_aem returned for it
Page == p_fetch.page
Detected == p_pc = "returned" /\ p_record[1].is_aem # None
Confidence == p_record[1].aem_confidence[1]
Evidence == p_record[1].aem_evidence[1]

\* C18: the confidence detect_aem returns is between 0 and 1 (0 and 100
\* hundredths), whatever checks match, all of them together included, and
\* however many response headers match.
C18_ConfidenceInUnitInterval ==
    Detected => Confidence >= 0 /\ Confidence <= 100

\* every check matches and so do four headers
C18_Witness ==
    /\ Detected
    /\ Page.sigs = AemSignals
    /\ Page.x_aem_headers = 2 /\ Page.day_cq_headers = 2
    /\ Confidence = 100

\* C19: is_aem is true exactly when the returned confidence is at least 0.30;
\* two 0.15 signals alone give exactly 0.30 and are detected, and a page
\* whose total is below 0.30 is not.
C19_DetectedIffThreshold ==
    Detected =>
        /\ p_record[1].is_aem[1] <=> Confidence >= 30
        /\ ( /\ Page.sigs = {"data_path", "url_content"}
             /\ Page.x_aem_headers = 0 /\ Page.day_cq_headers = 0 )
              => Confidence = 30 /\ p_record[1].is_aem = Some(TRUE)
        /\ ( /\ Page.sigs = {"cq_classes"}
             /\ Page.x_aem_headers = 0 /\ Page.day_cq_headers = 0 )
              => Confidence = 25 /\ p_record[1].is_aem = Some(FALSE)

\* data-path and /content/ in the URL, 0.15 each
C19_Witness ==
    /\ Detected
    /\ Page.sigs = {"data_path", "url_content"}
    /\ Page.x_aem_headers = 0 /\ Page.day_cq_headers = 0
    /\ Confidence = 30
    /\ p_record[1].is_aem = Some(TRUE)

\* the largest increment of the checks that file under category c
CategoryIncrement(c) ==
    IF c = "headers" THEN 30
    ELSE LET incs == {AemChecks[k][3] : k \in {j \in 1..Len(AemChecks) : AemChecks[j][2] = c}}
         IN  CHOOSE m \in incs : \A x \in incs : x <= m

RECURSIVE SumOver(_, _)
SumOver(S, f) ==
    IF S = {} THEN 0
    ELSE LET x == CHOOSE y \in S : TRUE IN f[x] + SumOver(S \ {x}, f)

\* C20 as stated: every evidence category adds one increment at most, so the
\* confidence is no more than the sum, over the categories with evidence, of
\* one increment each.
C20_OncePerCategory ==
    Detected =>
        Confidence <= SumOver(DOMAIN Evidence, [c \in EvidenceCategories |-> CategoryIncrement(c)])

\* C20 amended: every check that matches adds its own increment once, however
\* many strings its pattern matches, also when another check of the same
\* category matches; every matching header adds 0.30 or 0.25; the confidence
\* is the sum of these, at most 1.
C20_OncePerCheck ==
    Detected =>
        LET inc == [sg \in AemSignals |->
                      AemChecks[CHOOSE k \in 1..Len(AemChecks) : AemChecks[k][1] = sg][3]]
        IN  Confidence = Min(100, SumOver(Page.sigs, inc) + 30 * Page.x_aem_headers
                                                          + 25 * Page.day_cq_headers)

\* a cq-* and an aem-* class, two distinct strings each: four entries under
\* html_classes and two increments of 0.25
C20_Witness ==
    /\ Detected
    /\ Page.sigs = {"cq_classes", "aem_classes"}
    /\ Page.matches = 2
    /\ Page.x_aem_headers = 0 /\ Page.day_cq_headers = 0
    /\ Len(Evidence["html_classes"]) = 4
    /\ Confidence = 50

\* a check that files under category c matches on the page
CategoryMatched(c) ==
    \/ \E k \in 1..Len(AemChecks) :
          AemChecks[k][2] = c /\ AemChecks[k][1] \in Page.sigs
    \/ c = "headers" /\ Page.x_aem_headers + Page.day_cq_headers > 0

\* C21: the evidence map detect_aem returns has no category with an empty
\* list, and a category is a key of the map exactly when a check of that
\* category matched.
C21_NoEmptyCategory ==
    Detected =>
        /\ DOMAIN Evidence \subseteq EvidenceCategories
        /\ \A c \in DOMAIN Evidence : Evidence[c] # <<>>
        /\ \A c \in EvidenceCategories : c \in DOMAIN Evidence <=> CategoryMatched(c)

\* only data-path matches: the map has the one key data_attributes
C21_Witness ==
    /\ Detected
    /\ Page.sigs = {"data_path"}
    /\ Page.x_aem_headers = 0 /\ Page.day_cq_headers = 0
    /\ DOMAIN Evidence = {"data_attributes"}
    /\ Len(Evidence["data_attributes"]) = 1

\* the three platform-detection fields of the record r
AemFields(r) == {r.is_aem, r.aem_confidence, r.aem_evidence}

\* the record of every probe that has returned, by position
Finished == {p \in DOMAIN futures : futures[p].result # None}

\* C22: in every record the fields is_aem, aem_confidence and aem_evidence
\* are all present or all absent; they are present exactly when the
\* request's check_aem, true when omitted, is set and the fetch of the record
\* succeeded; the flag every probe gets is the request's, and the records of
\* the reply are the records the probes returned.
C22_AemFieldsTogether ==
    LET flag == IF data.check_aem = None THEN TRUE ELSE data.check_aem[1]
    IN  /\ check_aem = flag
        /\ \A p \in Finished :
              LET r == futures[p].result[1]
              IN  /\ None \notin AemFields(r) \/ AemFields(r) = {None}
                  /\ r.is_aem # None <=> flag /\ p \notin Failed
        /\ \A k \in 1..Len(results) :
              \E p \in Finished : results[k] = futures[p].result[1]

\* check_aem is omitted; one probe failed and another returned a response
C22_Witness ==
    /\ Done
    /\ data.check_aem = None
    /\ \E p \in Finished : p \in Failed /\ AemFields(futures[p].result[1]) = {None}
    /\ \E p \in Finished : p \notin Failed /\ None \notin AemFields(futures[p].result[1])

TimingVerdicts ==
    {"HIT (inferred from timing)", "MISS (inferred from timing)",
     "UNKNOWN (timing inconclusive)"}

\* one of the rules 1-6 matches on the signals the record echoes
SomeRuleOneToSix(r) ==
    \E k \in 1..6 : RulesOneToSix(r, r.age # <<>> /\ r.age # AgeZero)[k]

\* C23: response_time_ms is present exactly when the verdict is one of the
\* three timing verdicts; when the timing rule is reached and the VE segment
\* is no integer the verdict is UNKNOWN without a response time; when one of
\* the rules 1-6 decides there is no response time, whatever the timing
\* header holds.
C23_ResponseTimeIffTimingVerdict ==
    Returned =>
        /\ Rec.response_time_ms # None <=> Rec.cache_hit \in TimingVerdicts
        /\ FetchOk /\ SomeRuleOneToSix(Rec) => Rec.response_time_ms = None
        /\ ( /\ FetchOk /\ ~SomeRuleOneToSix(Rec)
             /\ Rec.x_timer # NOT_FOUND /\ Contains(Rec.x_timer, VE)
             /\ int(VePart(Rec.x_timer)) = None )
              => Rec.cache_hit = "UNKNOWN" /\ Rec.response_time_ms = None

\* X-Cache decides although the timing header holds VE99
C23_Witness ==
    /\ Returned /\ FetchOk
    /\ Rec.cache_hit = "MISS"
    /\ Rec.x_timer = <<"S","1",",","V","E","9","9">>
    /\ Rec.response_time_ms = None

\* the token is VE followed by an integer
IsVeToken(tok) ==
    /\ Len(tok) > 2
    /\ SubSeq(tok, 1, 2) = VE
    /\ int(SubSeq(tok, 3, Len(tok))) # None

\* C24 as stated: when none of the rules 1-6 matches and one token of the
\* comma-separated timing header is VE followed by an integer t, the verdict
\* is the timing verdict of t and response_time_ms is t, whatever the other
\* tokens are and wherever the VE token stands.
C24_VeTokenAnywhere ==
    (Returned /\ FetchOk /\ ~SomeRuleOneToSix(Rec) /\ Rec.x_timer # NOT_FOUND) =>
        LET toks == Split(Rec.x_timer, Comma)
            ve == {k \in 1..Len(toks) : IsVeToken(toks[k])}
        IN  Cardinality(ve) = 1 =>
              LET tok == toks[CHOOSE k \in ve : TRUE]
                  t == int(SubSeq(tok, 3, Len(tok)))[1]
              IN  Rec.cache_hit = TimingVerdict(t) /\ Rec.response_time_ms = Some(t)

\* the token AVE stands before VE99: the text after the first VE is empty
C24_Witness ==
    /\ Returned /\ FetchOk /\ ~SomeRuleOneToSix(Rec)
    /\ Rec.x_timer = <<"A","V","E",",","V","E","9","9">>
    /\ Rec.cache_hit = "UNKNOWN"
    /\ Rec.response_time_ms = None

\* the URLs (by position) whose probe returned a verdict of the set vs
WithVerdict(vs) == {p \in Finished : futures[p].result[1].cache_hit \in vs}

\* C25: the summary of a finished run is a function of what each URL's probe
\* returned, and of nothing else: every counter is the number of URLs whose
\* own record counts, and the ratio follows from these numbers, in whatever
\* order the probes completed and their records stand in the results.
C25_SummaryOrderFree ==
    Succeeded =>
        LET sm == reply[1].summary[1]
            n == Len(urls)
            hits == Cardinality(WithVerdict(HitVerdicts))
            cacheable_total == n - Cardinality(WithVerdict({"NOT_CACHEABLE", "ERROR"}))
        IN  /\ Finished = 1..n
            /\ sm.total_urls = n
            /\ sm.cache_hits = hits
            /\ sm.cache_misses = Cardinality(WithVerdict(MissVerdicts))
            /\ sm.confirmed_hits = Cardinality(WithVerdict({"HIT", "REFRESH_HIT"}))
            /\ sm.inferred_hits = Cardinality(WithVerdict({"HIT (inferred from timing)"}))
            /\ sm.confirmed_misses = Cardinality(WithVerdict({"MISS", "REFRESH_MISS"}))
            /\ sm.inferred_misses = Cardinality(WithVerdict({"MISS (inferred from timing)"}))
            /\ sm.not_cacheable = Cardinality(WithVerdict({"NOT_CACHEABLE"}))
            /\ sm.errors = Cardinality(WithVerdict({"ERROR"}))
            /\ sm.unknown = Cardinality(WithVerdict(UnknownVerdicts))
            /\ sm.total_aem_detected =
                  Cardinality({p \in Finished : futures[p].result[1].is_aem = Some(TRUE)})
            /\ sm.cache_hit_ratio =
                  IF cacheable_total > 0 THEN RatioHundredths(hits, cacheable_total) ELSE 0

\* the second URL's record stands before the first URL's, a hit after a miss
C25_Witness ==
    /\ Succeeded
    /\ Len(urls) = 3
    /\ results[1].url = urls[2] /\ results[2].url = urls[1]
    /\ results[1].cache_hit = "MISS (inferred from timing)"
    /\ results[2].cache_hit = "HIT"
    /\ reply[1].summary[1].cache_hits = 1
    /\ reply[1].summary[1].cache_misses >= 1

\* which of the five top-level counters count a record of verdict v, by the
\* tests of lines 393, 396 and 404-406 on the characters of v
CountersOf(v) ==
    {c \in {"cache_hits", "cache_misses", "not_cacheable", "errors", "unknown"} :
        \/ c = "cache_hits" /\ Contains(Chars(v), <<"H","I","T">>)
        \/ c = "cache_misses" /\ Contains(Chars(v), <<"M","I","S","S">>)
        \/ c = "not_cacheable" /\ v = "NOT_CACHEABLE"
        \/ c = "errors" /\ v = "ERROR"
        \/ c = "unknown" /\ Contains(Chars(v), <<"U","N","K","N","O","W","N">>)}

\* C26: on results made of records of check_akamai_cache, every record is
\* counted by exactly one of cache_hits, cache_misses, not_cacheable, errors
\* and unknown, and the five counters add up to total_urls.
C26_CountersPartition ==
    Done /\ reply[1].summary # None =>
        LET sm == reply[1].summary[1]
            rs == reply[1].results[1]
        IN  /\ \A k \in 1..Len(rs) : Cardinality(CountersOf(rs[k].cache_hit)) = 1
            /\ sm.cache_hits + sm.cache_misses + sm.not_cacheable + sm.errors + sm.unknown
                  = sm.total_urls

\* an inferred hit, a page that is not cacheable and a failure
C26_Witness ==
    /\ Done /\ reply[1].summary # None
    /\ LET sm == reply[1].summary[1]
       IN  /\ sm.total_urls = 3
           /\ sm.inferred_hits = 1 /\ sm.cache_hits = 1
           /\ sm.not_cacheable = 1
           /\ sm.errors = 1
           /\ sm.cache_misses = 0 /\ sm.unknown = 0

\* C27: on results made of records of check_akamai_cache, cache_hits is
\* confirmed_hits + inferred_hits and cache_misses is confirmed_misses +
\* inferred_misses; hence cache_hits is at most total_urls - not_cacheable -
\* errors and cache_hit_ratio lies between 0 and 100.
C27_HitsSplit ==
    Done /\ reply[1].summary # None =>
        LET sm == reply[1].summary[1]
        IN  /\ sm.cache_hits = sm.confirmed_hits + sm.inferred_hits
            /\ sm.cache_misses = sm.confirmed_misses + sm.inferred_misses
            /\ sm.cache_hits <= sm.total_urls - sm.not_cacheable - sm.errors
            /\ sm.cache_hit_ratio >= 0 /\ sm.cache_hit_ratio <= 10000

\* a refreshed hit, an inferred hit and a refreshed miss
C27_Witness ==
    /\ Done /\ reply[1].summary # None
    /\ Tally(reply[1].results[1], {"REFRESH_HIT"}) = 1
    /\ Tally(reply[1].results[1], {"REFRESH_MISS"}) = 1
    /\ LET sm == reply[1].summary[1]
       IN  /\ sm.cache_hits = 2 /\ sm.confirmed_hits = 1 /\ sm.inferred_hits = 1
           /\ sm.cache_misses = 1 /\ sm.confirmed_misses = 1
           /\ sm.cache_hit_ratio = 6667

\* the positions whose future as_completed has yielded, in this batch or in
\* an earlier one
Yielded == {p \in Finished : p \in yielded \/ Group(p) + 1 < Len(groups)}

\* C28: under every interleaving of the workers no URL is handed to the pool
\* twice and none has two records; the records of the results are the
\* records the probes returned, one for each future as_completed yielded; a
\* finished run has probed every retained URL once and its results hold
\* min(n, 100) records; and the results change only by the coordinating
\* flow's append of a finished probe's record, never in a step of a worker.
C28_OneRecordPerUrl ==
    /\ [](/\ \A p \in 1..Len(urls) : Submissions(urls[p]) <= 1 /\ Cardinality(RecordsOf(p)) <= 1
          /\ \A k \in 1..Len(results) :
                \E p \in Finished : results[k] = futures[p].result[1]
          /\ pc # "Pending" /\ urls # <<>> =>
                Len(results) = Cardinality(Yielded)
          /\ Succeeded =>
                /\ Len(results) = Min(Len(Resolved), max_urls)
                /\ \A p \in 1..Len(urls) :
                      Submissions(urls[p]) = 1 /\ Cardinality(RecordsOf(p)) = 1)
    /\ [][ /\ futures' # futures => results' = results
           /\ results' # results =>
                 /\ pc = "Collecting" \/ pc = "Pending"
                 /\ pc = "Collecting" =>
                       \E p \in Finished : results' = Append(results, futures[p].result[1]) ]_vars

\* four URLs in two batches, each batch collected against its submission order
C28_Witness ==
    /\ Succeeded
    /\ Len(urls) = 4 /\ URL_BATCH_SIZE = 2
    /\ results[1].url = 2 /\ results[2].url = 1 /\ results[3].url = 4 /\ results[4].url = 3
    /\ \A p \in 1..4 : Cardinality(RecordsOf(p)) = 1

\* C29: with the handler's thread, the pool threads and the fetches all
\* making progress, a run over a non-empty list of URLs ends: it reaches the
\* success reply with its summary, having dispatched every group of the
\* list, also when all the probes of a group fail.
C29_RunTerminates ==
    (pc = "Loop" /\ urls # <<>>) ~>
        (/\ Succeeded
         /\ reply[1].summary # None
         /\ Len(groups) = CeilDiv(Len(urls), URL_BATCH_SIZE)
         /\ Len(results) = Len(urls))

\* three URLs in two groups, every probe of the first group failed
C29_Witness ==
    /\ Succeeded
    /\ Len(urls) = 3 /\ URL_BATCH_SIZE = 2
    /\ Failed = {1, 2}
    /\ Len(groups) = 2
    /\ reply[1].summary[1].errors = 2

\* the evidence entries of all the categories of the map
EvidenceCount == SumOver(DOMAIN Evidence, [c \in DOMAIN Evidence |-> Len(Evidence[c])])

\* the checks and the headers that matched on the page
MatchCount == Cardinality(Page.sigs) + Page.x_aem_headers + Page.day_cq_headers

\* C30: every check or header that raises the confidence files at least one
\* evidence entry, so the returned confidence is positive exactly when the
\* evidence map is not empty, and is_aem true comes with at least one
\* category of evidence.
C30_ConfidenceHasEvidence ==
    Detected =>
        /\ EvidenceCount >= MatchCount
        /\ Confidence > 0 <=> MatchCount > 0
        /\ Confidence > 0 <=> DOMAIN Evidence # {}
        /\ p_record[1].is_aem = Some(TRUE) => DOMAIN Evidence # {}

\* the .html extension alone: 0.05, one entry under url_patterns, not detected
C30_Witness ==
    /\ Detected
    /\ Page.sigs = {"url_html"}
    /\ Page.x_aem_headers = 0 /\ Page.day_cq_headers = 0
    /\ Confidence = 5
    /\ DOMAIN Evidence = {"url_patterns"}
    /\ p_record[1].is_aem = Some(FALSE)


====
